---- MODULE Spec2Model ----
(***************************************************************************)
(* The agent coordination plane of system-trading/python/shared:           *)
(*   central_router.py     CircuitBreaker, CentralRouter                   *)
(*   a2a_communication.py  AgentRegistry, MessageRouter,                   *)
(*                         CollaborationOrchestrator                       *)
(* Every object lives in the one asyncio event loop: a handler runs        *)
(* atomically up to its next await, and an action of this module is one    *)
(* such run.  Time is the wall clock in whole seconds (datetime.now()),    *)
(* taken to be monotonic.                                                  *)
(***************************************************************************)
EXTENDS Integers, Sequences, FiniteSets, TLC

VARIABLES
    now,            \* datetime.now(), seconds
    ticks,          \* number of clock advances so far (bounds the run)
    \* ---- one CircuitBreaker object on its own
    cb,             \* [failure_count, last_failure, state]
    cb_call,        \* the last call on cb: [op, ret, from], from the state before it
    cb_streak,      \* record_failure calls since the last record_success
    cb_trials,      \* can_execute calls answered True since cb last left closed
                    \* or had an outcome recorded
    \* ---- CentralRouter
    agents,                 \* agent_id -> AgentInstance
    agent_types,            \* agent_type -> list of agent ids
    capabilities_index,     \* capability -> list of agent ids
    circuit_breakers,       \* agent_id -> CircuitBreaker
    routing_counters,       \* round-robin cursor per candidate tuple
    stats,                  \* the statistics counters
    \* ---- the route_message call in flight on the CentralRouter
    rt,                     \* its locals and where it stands
    \* ---- AgentRegistry, MessageRouter, CollaborationOrchestrator
    clock,                  \* datetime.now() and the loop's timers, in units of
                            \* 1/UnitsPerSecond s
    registry_agents,        \* AgentRegistry.agents: agent_id -> AgentProfile
    registry_order,         \* the insertion order of its keys
    registry_index,         \* AgentRegistry.capabilities_index
    message_handlers,       \* MessageRouter.message_handlers, the keys
    messages,               \* the AgentMessages created, by message_id
    pending_responses,      \* MessageRouter.pending_responses, the keys
    futures,                \* message_id -> state of the Future made for it
    tasks,                  \* the tasks created with asyncio.create_task and
                            \* not yet finished
    waits,                  \* message_id -> its wait_for_response call
    active_collaborations,  \* CollaborationOrchestrator.active_collaborations
    cc,                     \* the initiate_consensus_building call in flight
    pr,                     \* the orchestrate_peer_review call in flight
    \* ---- a function of the program applied on its own
    fn_args,                \* the arguments of the call
    fn_result,              \* [done, value]: what the call returned
    \* ---- for the properties of the routing strategies
    delivered,              \* the round_robin calls that delivered, one after
                            \* the other, since the registry last changed or
                            \* another call returned: [healthy, agent] of each
    \* ---- one agent process (base_agent.py, agents/*/agent.py)
    base_agent              \* its fields and the calls in flight on it

clockVars    == <<now, ticks>>
breakerVars  == <<cb, cb_call, cb_streak, cb_trials>>
registryVars == <<agents, agent_types, capabilities_index, circuit_breakers, stats>>
routeVars    == <<rt>>
routerVars   == <<registryVars, routing_counters, routeVars>>
coreVars     == <<clockVars, breakerVars, routerVars>>
msgVars      == <<registry_agents, registry_order, registry_index,
                 message_handlers, messages,
                 pending_responses, futures, tasks, waits>>
collabVars   == <<active_collaborations, cc, pr>>
a2aVars      == <<clock, msgVars, collabVars>>
fnVars       == <<fn_args, fn_result, delivered>>
agentVars    == <<base_agent>>
vars         == <<coreVars, a2aVars, fnVars, agentVars>>

None == -1          \* Python's None where a number is expected

(***************************************************************************)
(* Bounds of the model and constants of the program.                       *)
(***************************************************************************)
MaxTicks      == 3          \* clock advances in a run
MaxFailures   == 6          \* cap on a breaker's failure_count
MaxTrials     == 2          \* cb_trials stops counting here
Threshold     == 5          \* CircuitBreaker.__init__ threshold
Timeout       == 60         \* CircuitBreaker.__init__ timeout (the cooldown)
SecondsPerDay == 86400      \* timedelta.seconds wraps at one day

MaxRegistrations == 2       \* register_agent calls in a run
MaxRouted        == 1       \* cap on stats.messages_routed
MaxErrors        == 5       \* cap on stats.routing_errors
MaxMessages      == 2       \* AgentMessages created in a run
MaxClock         == 25      \* the collaboration clock stops here
MaxCollaborations == 1      \* consensus or peer review calls in a run

TickSteps == {1, Timeout, SecondsPerDay}

AgentIds     == {"a1", "a2"}
AgentTypes   == {"t1", "t2"}
Capabilities == {"c1", "c2"}
CapLists     == {<<"c1">>, <<"c1", "c2">>}

\* AgentStatus
HEALTHY   == "healthy"
DEGRADED  == "degraded"
UNHEALTHY == "unhealthy"
OFFLINE   == "offline"

DegradedAfter == 30         \* _health_monitor_task, seconds
OfflineAfter  == 60         \* _health_monitor_task, seconds
EvictAfter    == 300        \* _cleanup_task, timedelta(minutes=5)

\* list helpers
RECURSIVE RemoveFirst(_, _)
RemoveFirst(s, x) ==            \* list.remove(x) where x is in the list
    IF s = <<>> THEN <<>>
    ELSE IF Head(s) = x THEN Tail(s)
    ELSE <<Head(s)>> \o RemoveFirst(Tail(s), x)

InList(s, x) == \E i \in 1..Len(s) : s[i] = x
ListSet(s)   == {s[i] : i \in 1..Len(s)}

(***************************************************************************)
(* CircuitBreaker (central_router.py 72-103)                               *)
(***************************************************************************)
NewCircuitBreaker ==
    [failure_count |-> 0, last_failure |-> None, state |-> "closed"]

\* the mutant of record_success: closes the breaker and keeps the count
record_success_keeps_count(b) ==
    [b EXCEPT !.state = "closed"]

record_success(b) ==
    [b EXCEPT !.failure_count = 0, !.state = "closed"]

\* the mutant of record_failure: trips one failure late
record_failure_late(b, t) ==
    [failure_count |-> b.failure_count + 1,
     last_failure  |-> t,
     state         |-> IF b.failure_count + 1 > Threshold THEN "open" ELSE b.state]

record_failure(b, t) ==
    [failure_count |-> b.failure_count + 1,
     last_failure  |-> t,
     state         |-> IF b.failure_count + 1 >= Threshold THEN "open" ELSE b.state]

\* timedelta.seconds: the seconds field of a non-negative duration, days dropped
TimedeltaSeconds(d) == d % SecondsPerDay

\* the mutant of can_execute: an open breaker admits without a cooldown
can_execute_no_cooldown(b, t) ==
    IF b.state = "closed" THEN TRUE
    ELSE IF b.state = "open"
         THEN b.last_failure # None
         ELSE TRUE

\* what can_execute returns at time t
can_execute(b, t) ==
    IF b.state = "closed" THEN TRUE
    ELSE IF b.state = "open"
         THEN b.last_failure # None
              /\ TimedeltaSeconds(t - b.last_failure) > Timeout
         ELSE TRUE

\* the breaker after a can_execute call at time t
after_can_execute(b, t) ==
    IF b.state = "open" /\ can_execute(b, t)
    THEN [b EXCEPT !.state = "half-open"]
    ELSE b

(***************************************************************************)
(* The clock.                                                              *)
(***************************************************************************)
Tick(d) ==
    /\ ticks < MaxTicks
    /\ now' = now + d
    /\ ticks' = ticks + 1

(***************************************************************************)
(* The breaker on its own: any caller, any order of calls.                 *)
(***************************************************************************)
CB_RecordSuccess ==
    /\ cb' = record_success(cb)
    /\ cb_call' = [op |-> "record_success", ret |-> TRUE, from |-> cb.state]
    /\ cb_streak' = 0
    /\ cb_trials' = 0
    /\ UNCHANGED <<clockVars, routerVars, a2aVars, fnVars>>
    /\ UNCHANGED agentVars

CB_RecordFailure ==
    /\ cb.failure_count < MaxFailures
    /\ cb' = record_failure(cb, now)
    /\ cb_call' = [op |-> "record_failure", ret |-> TRUE, from |-> cb.state]
    /\ cb_streak' = cb_streak + 1
    /\ cb_trials' = 0
    /\ UNCHANGED <<clockVars, routerVars, a2aVars, fnVars>>
    /\ UNCHANGED agentVars

CB_CanExecute ==
    /\ cb' = after_can_execute(cb, now)
    /\ cb_call' = [op |-> "can_execute", ret |-> can_execute(cb, now),
                   from |-> cb.state]
    /\ cb_trials' = IF cb.state # "closed" /\ can_execute(cb, now)
                         /\ cb_trials < MaxTrials
                    THEN cb_trials + 1 ELSE cb_trials
    /\ UNCHANGED <<cb_streak, clockVars, routerVars, a2aVars, fnVars>>
    /\ UNCHANGED agentVars

CB_Tick ==
    /\ \E d \in TickSteps : Tick(d)
    /\ cb_call' = [op |-> "none", ret |-> TRUE, from |-> cb.state]
    /\ UNCHANGED <<cb, cb_streak, cb_trials, routerVars, a2aVars, fnVars>>
    /\ UNCHANGED agentVars

\* no route_message call in flight
RouteIdle ==
    [pc |-> "idle", strategy |-> "round_robin", resolved |-> FALSE,
     healthy |-> << >>, selected |-> "", stale |-> FALSE, ret |-> FALSE,
     passed |-> {}, attempts |-> << >>]

ClockInit ==
    now = 0 /\ ticks = 0

CBInit ==
    /\ cb = NewCircuitBreaker
    /\ cb_call = [op |-> "none", ret |-> TRUE, from |-> "closed"]
    /\ cb_streak = 0
    /\ cb_trials = 0

RouterInit ==
    /\ agents = << >>
    /\ agent_types = [t \in AgentTypes |-> << >>]
    /\ capabilities_index = [c \in Capabilities |-> << >>]
    /\ circuit_breakers = << >>
    /\ routing_counters = << >>
    /\ stats = [messages_routed |-> 0, routing_errors |-> 0,
                agents_registered |-> 0, circuit_breaker_trips |-> 0]
    /\ rt = RouteIdle

CallIdle == [pc |-> "idle", id |-> 0]

A2AInit ==
    /\ clock = 0
    /\ registry_agents = << >>
    /\ registry_order = << >>
    /\ registry_index = << >>
    /\ message_handlers = {}
    /\ messages = << >>
    /\ pending_responses = {}
    /\ futures = << >>
    /\ tasks = {}
    /\ waits = << >>
    /\ active_collaborations = << >>
    /\ cc = CallIdle
    /\ pr = CallIdle

NotCalled == [done |-> FALSE, value |-> << >>]

\* no agent process in the run
AgentInit == base_agent = << >>

FnInit ==
    /\ fn_args = << >>
    /\ fn_result = NotCalled
    /\ delivered = << >>

BreakerInit ==
    ClockInit /\ CBInit /\ RouterInit /\ A2AInit /\ FnInit /\ AgentInit

BreakerNext ==
    \/ CB_RecordSuccess
    \/ CB_RecordFailure
    \/ CB_CanExecute
    \/ CB_Tick

SpecBreaker == BreakerInit /\ [][BreakerNext]_vars

(***************************************************************************)
(* CentralRouter: the registry (central_router.py 194-219, 338-351,        *)
(* 389-430, 454-472).  agent_types and capabilities_index are              *)
(* defaultdict(list): a key never written reads as the empty list.         *)
(* load_factor is kept in hundredths.                                      *)
(***************************************************************************)
AgentInstance(type, caps, status, hb, load) ==
    [agent_type |-> type, capabilities |-> caps, status |-> status,
     last_heartbeat |-> hb, load_factor |-> load, message_count |-> 0]

\* dict assignment d[k] = v
Put(d, k, v) == [x \in DOMAIN d \cup {k} |-> IF x = k THEN v ELSE d[x]]
\* del d[k]
Del(d, k) == [x \in DOMAIN d \ {k} |-> d[x]]

\* the mutant of the indexing loop: it stops after the first capability
IndexFirstCapability(idx, caps, id) ==
    IF caps = <<>> THEN idx ELSE [idx EXCEPT ![Head(caps)] = Append(@, id)]

\* for capability in caps: capabilities_index[capability].append(id)
RECURSIVE IndexCapabilities(_, _, _)
IndexCapabilities(idx, caps, id) ==
    IF caps = <<>> THEN idx
    ELSE IndexCapabilities([idx EXCEPT ![Head(caps)] = Append(@, id)],
                           Tail(caps), id)

\* for capability in caps: if id in index[capability]: index[capability].remove(id)
RECURSIVE UnindexCapabilities(_, _, _)
UnindexCapabilities(idx, caps, id) ==
    IF caps = <<>> THEN idx
    ELSE UnindexCapabilities(
             [idx EXCEPT ![Head(caps)] =
                  IF InList(@, id) THEN RemoveFirst(@, id) ELSE @],
             Tail(caps), id)

\* register_agent: the publish of the update notification changes no state
RegisterAgent(id, type, caps, status) ==
    /\ stats.agents_registered < MaxRegistrations
    /\ agents' = Put(agents, id, AgentInstance(type, caps, status, now, 0))
    /\ agent_types' = [agent_types EXCEPT ![type] = Append(@, id)]
    /\ capabilities_index' = IndexCapabilities(capabilities_index, caps, id)
    /\ circuit_breakers' = Put(circuit_breakers, id, NewCircuitBreaker)
    /\ stats' = [stats EXCEPT !.agents_registered = @ + 1]

\* the registry after _unregister_agent(id), as <<agents, types, caps, breakers>>
unregister_agent(st, id) ==
    IF id \notin DOMAIN st[1] THEN st
    ELSE LET agent == st[1][id] IN
         << Del(st[1], id),
            [st[2] EXCEPT ![agent.agent_type] = RemoveFirst(@, id)],
            UnindexCapabilities(st[3], agent.capabilities, id),
            IF id \in DOMAIN st[4] THEN Del(st[4], id) ELSE st[4] >>

RECURSIVE unregister_all(_, _)
unregister_all(st, ids) ==
    IF ids = <<>> THEN st
    ELSE unregister_all(unregister_agent(st, Head(ids)), Tail(ids))

RegistryState == <<agents, agent_types, capabilities_index, circuit_breakers>>

SetRegistry(st) ==
    /\ agents' = st[1]
    /\ agent_types' = st[2]
    /\ capabilities_index' = st[3]
    /\ circuit_breakers' = st[4]

\* _unregister_agent called for one id
UnregisterAgent(id) ==
    /\ SetRegistry(unregister_agent(RegistryState, id))
    /\ UNCHANGED stats

\* the mutant of _handle_agent_heartbeat: an unknown id gets a breaker
HeartbeatAddsBreaker(id, load) ==
    /\ agents' = IF id \in DOMAIN agents
                 THEN [agents EXCEPT ![id].last_heartbeat = now,
                                     ![id].status = HEALTHY,
                                     ![id].load_factor = load]
                 ELSE agents
    /\ circuit_breakers' = Put(circuit_breakers, id, NewCircuitBreaker)
    /\ UNCHANGED <<agent_types, capabilities_index, stats>>

\* _handle_agent_heartbeat
HandleAgentHeartbeat(id, load) ==
    /\ agents' = IF id \in DOMAIN agents
                 THEN [agents EXCEPT ![id].last_heartbeat = now,
                                     ![id].status = HEALTHY,
                                     ![id].load_factor = load]
                 ELSE agents
    /\ UNCHANGED <<agent_types, capabilities_index, circuit_breakers, stats>>

\* the mutant of aged_status: the two limits trade their results
aged_status_swapped(agent, t) ==
    IF agent.last_heartbeat = None THEN agent.status
    ELSE IF t - agent.last_heartbeat > OfflineAfter THEN DEGRADED
    ELSE IF t - agent.last_heartbeat > DegradedAfter THEN OFFLINE
    ELSE agent.status

\* one pass of _health_monitor_task
aged_status(agent, t) ==
    IF agent.last_heartbeat = None THEN agent.status
    ELSE IF t - agent.last_heartbeat > OfflineAfter THEN OFFLINE
    ELSE IF t - agent.last_heartbeat > DegradedAfter THEN DEGRADED
    ELSE agent.status

HealthMonitorTask ==
    /\ agents' = [a \in DOMAIN agents |->
                     [agents[a] EXCEPT !.status = aged_status(agents[a], now)]]
    /\ UNCHANGED <<agent_types, capabilities_index, circuit_breakers, stats>>

\* one pass of _cleanup_task; dicts iterate in insertion order, and the order
\* of the evictions does not change the result
is_evictable(agent, t) ==
    /\ agent.status = OFFLINE
    /\ agent.last_heartbeat # None
    /\ t - agent.last_heartbeat > EvictAfter

RECURSIVE SetToList(_)
SetToList(S) ==
    IF S = {} THEN <<>>
    ELSE LET x == CHOOSE y \in S : TRUE IN <<x>> \o SetToList(S \ {x})

CleanupTask ==
    /\ SetRegistry(unregister_all(RegistryState,
           SetToList({a \in DOMAIN agents : is_evictable(agents[a], now)})))
    /\ UNCHANGED stats

(***************************************************************************)
(* The registry under registrations, heartbeats, aging and eviction.       *)
(***************************************************************************)
RegistryFrame == UNCHANGED <<breakerVars, routing_counters, routeVars, a2aVars, fnVars>>

RegistryTickSteps == {SecondsPerDay}
LoadInputs == {50}

REG_Register ==
    /\ \E id \in AgentIds, type \in AgentTypes, caps \in CapLists :
           RegisterAgent(id, type, caps, HEALTHY)
    /\ UNCHANGED clockVars /\ RegistryFrame
    /\ UNCHANGED agentVars

REG_Unregister ==
    /\ \E id \in AgentIds : UnregisterAgent(id)
    /\ UNCHANGED clockVars /\ RegistryFrame
    /\ UNCHANGED agentVars

REG_Heartbeat ==
    /\ \E id \in AgentIds, load \in LoadInputs : HandleAgentHeartbeat(id, load)
    /\ UNCHANGED clockVars /\ RegistryFrame
    /\ UNCHANGED agentVars

REG_HealthMonitor ==
    /\ HealthMonitorTask
    /\ UNCHANGED clockVars /\ RegistryFrame
    /\ UNCHANGED agentVars

REG_Cleanup ==
    /\ CleanupTask
    /\ UNCHANGED clockVars /\ RegistryFrame
    /\ UNCHANGED agentVars

REG_Tick ==
    /\ \E d \in RegistryTickSteps : Tick(d)
    /\ UNCHANGED <<routerVars, breakerVars, a2aVars, fnVars>>
    /\ UNCHANGED agentVars

RegistryInit ==
    ClockInit /\ CBInit /\ RouterInit /\ A2AInit /\ FnInit /\ AgentInit

RegistryNext ==
    \/ REG_Register
    \/ REG_Unregister
    \/ REG_Heartbeat
    \/ REG_HealthMonitor
    \/ REG_Cleanup
    \/ REG_Tick

SpecRegistry == RegistryInit /\ [][RegistryNext]_vars

(***************************************************************************)
(* CentralRouter.route_message (central_router.py 221-326).  The call runs *)
(* without suspension up to the publish awaited in _deliver_message; other *)
(* handlers and the background tasks run while a publish is pending.  The  *)
(* state with rt.pc = "done" is the instant of the return: it shows what   *)
(* the call did, and nothing else runs before RouteReturn clears it.       *)
(*   rt.pc         idle | deliver1 | deliver2 | done                       *)
(*   rt.resolved   destination_agents is not empty                         *)
(*   rt.healthy    healthy_agents                                          *)
(*   rt.selected   the agent the pending publish goes to                   *)
(*   rt.stale      agents[rt.selected] is no longer the AgentInstance the  *)
(*                 pending _deliver_message holds                          *)
(*   rt.ret        the value returned                                      *)
(* and, for the properties,                                                *)
(*   rt.passed     the candidates that were HEALTHY with a breaker that    *)
(*                 allowed execution when the filter ran                   *)
(*   rt.attempts   the _deliver_message calls made: the agent, whether it  *)
(*                 published, whether the agent accepted, and whether the  *)
(*                 agent's breaker took the outcome                        *)
(***************************************************************************)
\* RoutingStrategy
Strategies == {"round_robin", "least_loaded", "random", "sticky_session",
               "priority_based"}

\* lines 231-244: destination_agents
destination_agents(kind, dest) ==
    IF kind = "id" THEN (IF dest \in DOMAIN agents THEN <<dest>> ELSE << >>)
    ELSE IF kind = "type" THEN agent_types[dest]
    ELSE capabilities_index[dest]

\* the mutant of the filter: the status test is lost
RECURSIVE healthy_filter_no_status(_, _, _)
healthy_filter_no_status(cands, brs, t) ==
    IF cands = << >> THEN [healthy |-> << >>, breakers |-> brs, raised |-> FALSE]
    ELSE LET id == Head(cands) IN
         IF id \notin DOMAIN agents \/ id \notin DOMAIN brs
         THEN [healthy |-> << >>, breakers |-> brs, raised |-> TRUE]
         ELSE LET rest == healthy_filter_no_status(Tail(cands),
                              [brs EXCEPT ![id] = after_can_execute(@, t)], t)
              IN IF can_execute(brs[id], t)
                 THEN [rest EXCEPT !.healthy = <<id>> \o @]
                 ELSE rest

\* lines 251-255: the list comprehension, in candidate order.  can_execute is
\* called only on a HEALTHY agent and may move its breaker to half-open; a
\* candidate missing from agents or circuit_breakers raises KeyError.
RECURSIVE healthy_filter(_, _, _)
healthy_filter(cands, brs, t) ==
    IF cands = << >> THEN [healthy |-> << >>, breakers |-> brs, raised |-> FALSE]
    ELSE LET id == Head(cands) IN
         IF id \notin DOMAIN agents
         THEN [healthy |-> << >>, breakers |-> brs, raised |-> TRUE]
         ELSE IF agents[id].status # HEALTHY
         THEN healthy_filter(Tail(cands), brs, t)
         ELSE IF id \notin DOMAIN brs
         THEN [healthy |-> << >>, breakers |-> brs, raised |-> TRUE]
         ELSE LET rest == healthy_filter(Tail(cands),
                              [brs EXCEPT ![id] = after_can_execute(@, t)], t)
              IN IF can_execute(brs[id], t)
                 THEN [rest EXCEPT !.healthy = <<id>> \o @]
                 ELSE rest

\* routing_counters is a defaultdict(int)
Counter(cnt, key) == IF key \in DOMAIN cnt THEN cnt[key] ELSE 0

\* the mutant of least_loaded: the load is not looked at
first_listed(list) == list[1]

\* min(agents, key=load_factor): the first agent of minimal load
least_loaded(list) ==
    LET i == CHOOSE i \in 1..Len(list) :
                 /\ \A j \in 1..Len(list) :
                        agents[list[i]].load_factor <= agents[list[j]].load_factor
                 /\ \A j \in 1..(i - 1) :
                        agents[list[j]].load_factor > agents[list[i]].load_factor
    IN list[i]

\* _select_agent raises on an empty list (modulo by zero, min or choice of an
\* empty sequence) and, for least_loaded, on an agent that is not registered
select_raises(list, strategy) ==
    \/ list = << >>
    \/ strategy = "least_loaded" /\ \E a \in ListSet(list) : a \notin DOMAIN agents

\* the mutant of _select_agent: the round-robin cursor is not stored
select_agent_no_cursor(list, strategy, cnt) ==
    IF strategy = "least_loaded"
    THEN {[agent |-> least_loaded(list), counters |-> cnt]}
    ELSE IF strategy = "random"
    THEN {[agent |-> a, counters |-> cnt] : a \in ListSet(list)}
    ELSE LET c == (Counter(cnt, list) + 1) % Len(list)
         IN {[agent |-> list[c + 1], counters |-> cnt]}

\* lines 287-302: the possible outcomes [agent, counters] of _select_agent
select_agent(list, strategy, cnt) ==
    IF strategy = "least_loaded"
    THEN {[agent |-> least_loaded(list), counters |-> cnt]}
    ELSE IF strategy = "random"
    THEN {[agent |-> a, counters |-> cnt] : a \in ListSet(list)}
    ELSE LET c == (Counter(cnt, list) + 1) % Len(list)
         IN {[agent |-> list[c + 1], counters |-> Put(cnt, list, c)]}

\* lines 319-320, on the AgentInstance that _deliver_message holds
count_message(ags, id, stale) ==
    IF stale \/ id \notin DOMAIN ags THEN ags
    ELSE [ags EXCEPT ![id].message_count = @ + 1,
                     ![id].load_factor = ags[id].message_count + 1]

\* one _deliver_message call: the agent, whether the publish was reached,
\* whether it completed, and whether route_message then called record_success
\* or record_failure on the agent's breaker
Attempt(id, published, ok, recorded) ==
    [agent |-> id, published |-> published, ok |-> ok, recorded |-> recorded]

\* the candidates the claim's filter admits, read off the state
passing(cands) ==
    {id \in ListSet(cands) :
        /\ id \in DOMAIN agents /\ agents[id].status = HEALTHY
        /\ id \in DOMAIN circuit_breakers
        /\ can_execute(circuit_breakers[id], now)}

Return(r, value) == [r EXCEPT !.pc = "done", !.ret = value]

\* route_message from its entry to the first publish, or to its return
RouteBegin(kind, dest, strategy) ==
    /\ rt.pc = "idle"
    /\ LET cands == destination_agents(kind, dest)
           f     == healthy_filter(cands, circuit_breakers, now)
           call  == [RouteIdle EXCEPT !.strategy = strategy,
                                      !.resolved = cands # << >>,
                                      !.passed = passing(cands)]
       IN /\ circuit_breakers' = IF cands = << >> THEN circuit_breakers ELSE f.breakers
          /\ IF cands = << >>
             THEN /\ rt' = Return(call, FALSE)
                  /\ UNCHANGED <<stats, routing_counters>>
             ELSE IF f.raised
             THEN /\ rt' = Return(call, FALSE)
                  /\ stats' = [stats EXCEPT !.routing_errors = @ + 1]
                  /\ UNCHANGED routing_counters
             ELSE IF f.healthy = << >>
             THEN /\ rt' = Return(call, FALSE)
                  /\ UNCHANGED <<stats, routing_counters>>
             ELSE \E sel \in select_agent(f.healthy, strategy, routing_counters) :
                  /\ rt' = [call EXCEPT !.pc = "deliver1", !.healthy = f.healthy,
                                        !.selected = sel.agent]
                  /\ routing_counters' = sel.counters
                  /\ UNCHANGED stats
    /\ UNCHANGED <<agents, agent_types, capabilities_index>>

\* the first publish completes (ok) or raises; lines 265-280
RouteDeliver1(ok) ==
    /\ rt.pc = "deliver1"
    /\ LET x    == rt.selected
           gone == x \notin DOMAIN circuit_breakers
           brs  == IF gone THEN circuit_breakers
                   ELSE [circuit_breakers EXCEPT ![x] =
                            IF ok THEN record_success(@) ELSE record_failure(@, now)]
           att  == Attempt(x, TRUE, ok, ~gone)
           r1   == [rt EXCEPT !.attempts = Append(@, att)]
           alts == SelectSeq(rt.healthy, LAMBDA a : a # x)
       IN /\ agents' = IF ok THEN count_message(agents, x, rt.stale) ELSE agents
          /\ circuit_breakers' = brs
          /\ IF ok
             THEN /\ stats' = [stats EXCEPT !.messages_routed = @ + 1,
                                  !.routing_errors = IF gone THEN @ + 1 ELSE @]
                  /\ rt' = Return(r1, ~gone)
                  /\ UNCHANGED routing_counters
             ELSE IF gone
             THEN /\ stats' = [stats EXCEPT !.routing_errors = @ + 2]
                  /\ rt' = Return(r1, FALSE)
                  /\ UNCHANGED routing_counters
             ELSE IF Len(rt.healthy) <= 1
             THEN /\ stats' = [stats EXCEPT !.routing_errors = @ + 1]
                  /\ rt' = Return(r1, FALSE)
                  /\ UNCHANGED routing_counters
             ELSE IF select_raises(alts, rt.strategy)
             THEN /\ stats' = [stats EXCEPT !.routing_errors = @ + 2]
                  /\ rt' = Return(r1, FALSE)
                  /\ UNCHANGED routing_counters
             ELSE \E sel \in select_agent(alts, rt.strategy, routing_counters) :
                  /\ stats' = [stats EXCEPT !.routing_errors = @ + 1]
                  /\ routing_counters' = sel.counters
                  /\ rt' = IF sel.agent \in DOMAIN agents
                           THEN [r1 EXCEPT !.pc = "deliver2",
                                           !.selected = sel.agent, !.stale = FALSE]
                           ELSE Return([r1 EXCEPT !.attempts = Append(@,
                                    Attempt(sel.agent, FALSE, FALSE, FALSE))], FALSE)
    /\ UNCHANGED <<agent_types, capabilities_index>>

\* the publish of the retry completes (ok) or raises; lines 278-280
RouteDeliver2(ok) ==
    /\ rt.pc = "deliver2"
    /\ agents' = IF ok THEN count_message(agents, rt.selected, rt.stale) ELSE agents
    /\ rt' = Return([rt EXCEPT !.attempts = Append(@,
                 Attempt(rt.selected, TRUE, ok, FALSE))], ok)
    /\ UNCHANGED <<agent_types, capabilities_index, circuit_breakers, stats,
                   routing_counters>>

\* the caller has the returned value; the call's locals are gone
RouteReturn ==
    /\ rt.pc = "done"
    /\ rt' = RouteIdle
    /\ UNCHANGED <<registryVars, routing_counters>>

\* a pending _deliver_message holds the AgentInstance it read before the
\* publish: registering its id again, or evicting it, leaves it with an object
\* that is no longer in agents
Detach(ids) ==
    rt' = IF rt.pc \in {"deliver1", "deliver2"} /\ rt.selected \in ids
          THEN [rt EXCEPT !.stale = TRUE] ELSE rt

(***************************************************************************)
(* The router under routing requests, registrations, aging and eviction.   *)
(* A re-registration stands for whatever refreshes an agent's status and   *)
(* last_heartbeat; the strategy is random, which can return every agent    *)
(* another strategy returns.                                               *)
(***************************************************************************)
RouteTickSteps == {EvictAfter + 1}

\* whether the run may still take a publish that completes, or one that raises
MaySucceed == stats.messages_routed < MaxRouted
MayFail    == stats.routing_errors < MaxErrors

RouteHorizon   == EvictAfter    \* every timer of the router has run out by then
RouteTypes     == {"t1"}
RouteCapLists  == {<<"c1">>}
RouteStrategies == {"random"}
RouteDestinations == {<<"id", "a1">>, <<"type", "t1">>, <<"capability", "c1">>}

RT_Register ==
    /\ rt.pc # "done"
    /\ \E id \in AgentIds, type \in RouteTypes, caps \in RouteCapLists :
           RegisterAgent(id, type, caps, HEALTHY) /\ Detach({id})
    /\ UNCHANGED <<clockVars, breakerVars, a2aVars, fnVars, routing_counters>>
    /\ UNCHANGED agentVars

RT_HealthMonitor ==
    /\ rt.pc # "done"
    /\ HealthMonitorTask
    /\ UNCHANGED <<clockVars, breakerVars, a2aVars, fnVars, routing_counters, routeVars>>
    /\ UNCHANGED agentVars

RT_Cleanup ==
    /\ rt.pc # "done"
    /\ CleanupTask
    /\ Detach({a \in DOMAIN agents : is_evictable(agents[a], now)})
    /\ UNCHANGED <<clockVars, breakerVars, a2aVars, fnVars, routing_counters>>
    /\ UNCHANGED agentVars

RT_Tick ==
    /\ rt.pc # "done"
    /\ now < RouteHorizon
    /\ \E d \in RouteTickSteps : Tick(d)
    /\ UNCHANGED <<breakerVars, a2aVars, fnVars, routerVars>>
    /\ UNCHANGED agentVars

RT_Return ==
    /\ RouteReturn
    /\ UNCHANGED <<clockVars, breakerVars, a2aVars, fnVars>>
    /\ UNCHANGED agentVars

RT_Begin ==
    /\ \E d \in RouteDestinations, strategy \in RouteStrategies :
           RouteBegin(d[1], d[2], strategy)
    /\ rt'.pc = "deliver1" => MaySucceed
    /\ stats' # stats => MayFail
    /\ UNCHANGED <<clockVars, breakerVars, a2aVars, fnVars>>
    /\ UNCHANGED agentVars

RT_Deliver1 ==
    /\ \E ok \in BOOLEAN : (IF ok THEN MaySucceed ELSE MayFail) /\ RouteDeliver1(ok)
    /\ UNCHANGED <<clockVars, breakerVars, a2aVars, fnVars>>
    /\ UNCHANGED agentVars

RT_Deliver2 ==
    /\ \E ok \in BOOLEAN : RouteDeliver2(ok)
    /\ UNCHANGED <<clockVars, breakerVars, a2aVars, fnVars>>
    /\ UNCHANGED agentVars

RouteInit ==
    ClockInit /\ CBInit /\ RouterInit /\ A2AInit /\ FnInit /\ AgentInit

RouteNext ==
    \/ RT_Register
    \/ RT_HealthMonitor
    \/ RT_Cleanup
    \/ RT_Tick
    \/ RT_Begin
    \/ RT_Deliver1
    \/ RT_Deliver2
    \/ RT_Return

SpecRoute == RouteInit /\ [][RouteNext]_vars

(***************************************************************************)
(* a2a_communication.py: AgentRegistry.register_agent (113-129) and        *)
(* MessageRouter (204-291).  route_message never suspends: it creates the  *)
(* delivery task and, through _track_pending_response, the Future and the  *)
(* watchdog task, and returns.  A task runs when the loop gets to it.      *)
(*   futures[mid]   pending | timeout (set_exception(TimeoutError)) |      *)
(*                  result (set_result)                                    *)
(*   waits[mid]     waiting | ValueError | TimeoutError | response         *)
(* and, in a message, for the properties,                                  *)
(*   routed_at, accepted   when route_message took it and what it returned *)
(*   answered_at           when the receiver's handler returned a response *)
(*                         to it that route_message accepted               *)
(***************************************************************************)
PollInterval   == 2             \* asyncio.sleep(0.1) of the consensus poll
UnitsPerSecond == 10 * PollInterval     \* one unit of clock is 50 ms

Seconds(n) == IF n = None THEN None ELSE n * UnitsPerSecond

\* AgentProfile (lines 87-101), the fields the coordination code reads
AgentProfile(caps, reputation, load) ==
    [capabilities |-> caps, reputation_score |-> reputation,
     load_factor |-> load, last_heartbeat |-> None, status |-> "active"]

\* AgentMessage (lines 70-84)
AgentMessage(sender, receiver, type, requires, timeout, ttl, correlation) ==
    [sender_id |-> sender, receiver_id |-> receiver, message_type |-> type,
     requires_response |-> requires, response_timeout |-> timeout,
     ttl |-> ttl, correlation_id |-> correlation,
     routed_at |-> None, accepted |-> FALSE, answered_at |-> None]

Task(kind, mid, due) == [kind |-> kind, mid |-> mid, due |-> due]

\* the state MessageRouter.route_message works on
RouterState ==
    [messages |-> messages, pending_responses |-> pending_responses,
     futures |-> futures, tasks |-> tasks]

SetRouterState(st) ==
    /\ messages' = st.messages
    /\ pending_responses' = st.pending_responses
    /\ futures' = st.futures
    /\ tasks' = st.tasks

\* lines 268-275; response_timeout None or 0 is falsy
track_pending_response(st, mid, t) ==
    LET m == st.messages[mid]
    IN IF m.response_timeout # None /\ m.response_timeout # 0
       THEN [st EXCEPT !.futures = Put(@, mid, "pending"),
                       !.pending_responses = @ \cup {mid},
                       !.tasks = @ \cup {Task("watchdog", mid,
                                               t + m.response_timeout)}]
       ELSE st

\* lines 218-251: [st, ret]
route_message(st, mid, t) ==
    LET m == st.messages[mid]
    IN IF m.receiver_id \notin DOMAIN registry_agents
       THEN [st |-> st, ret |-> FALSE]
       ELSE IF m.ttl # None /\ t > m.ttl
       THEN [st |-> st, ret |-> FALSE]
       ELSE IF m.receiver_id \in message_handlers
       THEN LET s1 == IF m.requires_response
                      THEN track_pending_response(st, mid, t) ELSE st
            IN [st |-> [s1 EXCEPT !.tasks = @ \cup {Task("deliver", mid, t)}],
                ret |-> TRUE]
       ELSE [st |-> st, ret |-> FALSE]

\* a new message is created and handed to route_message
send(st, msg, t) ==
    LET mid == Len(st.messages) + 1
        r   == route_message([st EXCEPT !.messages = Append(@, msg)], mid, t)
    IN [r EXCEPT !.st.messages[mid].routed_at = t,
                 !.st.messages[mid].accepted = r.ret]

\* AgentRegistry.register_agent, lines 113-129
A2ARegisterAgent(id, profile) ==
    /\ registry_agents' = Put(registry_agents, id, profile)
    /\ registry_order' = IF id \in DOMAIN registry_agents THEN registry_order
                         ELSE Append(registry_order, id)
    /\ registry_index' =
           [c \in DOMAIN registry_index \cup profile.capabilities |->
               IF c \in profile.capabilities
               THEN (IF c \in DOMAIN registry_index THEN registry_index[c] ELSE {})
                    \cup {id}
               ELSE registry_index[c]]

\* MessageRouter.register_handler, lines 214-216
RegisterHandler(id) ==
    message_handlers' = message_handlers \cup {id}

\* A2ACommunicationManager.create_agent_message and send_message, 617-622
SendMessage(sender, receiver, requires_response, response_timeout) ==
    /\ Len(messages) < MaxMessages
    /\ SetRouterState(send(RouterState,
           AgentMessage(sender, receiver, "request", requires_response,
                        response_timeout, None, None), clock).st)

\* _deliver_message, lines 253-266: the handler runs and either returns
\* nothing or returns a response to the sender, which is routed in turn; a
\* handler does not answer a response
DeliverMessage(task, responds) ==
    /\ task \in tasks /\ task.kind = "deliver"
    /\ LET m   == messages[task.mid]
           st0 == [RouterState EXCEPT !.tasks = @ \ {task}]
       IN IF responds
          THEN /\ m.message_type # "response"
               /\ Len(messages) < MaxMessages
               /\ LET r == send(st0, AgentMessage(m.receiver_id, m.sender_id,
                                   "response", FALSE, None, None, task.mid), clock)
                  IN SetRouterState(IF r.ret /\ m.answered_at = None
                         THEN [r.st EXCEPT !.messages[task.mid].answered_at = clock]
                         ELSE r.st)
          ELSE SetRouterState(st0)

\* the mutant of _handle_response_timeout: the slot is not popped
HandleResponseTimeoutKeepsSlot(task) ==
    /\ task \in tasks /\ task.kind = "watchdog"
    /\ clock >= task.due
    /\ tasks' = tasks \ {task}
    /\ pending_responses' = pending_responses
    /\ futures' = IF task.mid \in pending_responses /\ futures[task.mid] = "pending"
                  THEN [futures EXCEPT ![task.mid] = "timeout"] ELSE futures
    /\ UNCHANGED messages

\* _handle_response_timeout after its sleep, lines 280-284
HandleResponseTimeout(task) ==
    /\ task \in tasks /\ task.kind = "watchdog"
    /\ clock >= task.due
    /\ tasks' = tasks \ {task}
    /\ pending_responses' = pending_responses \ {task.mid}
    /\ futures' = IF task.mid \in pending_responses /\ futures[task.mid] = "pending"
                  THEN [futures EXCEPT ![task.mid] = "timeout"] ELSE futures
    /\ UNCHANGED messages

\* wait_for_response up to its await, lines 286-291
WaitForResponse(mid) ==
    /\ mid \in 1..Len(messages) /\ mid \notin DOMAIN waits
    /\ waits' = Put(waits, mid, IF mid \in pending_responses THEN "waiting"
                                ELSE "ValueError")

\* the awaited Future is done
WaitResume(mid) ==
    /\ mid \in DOMAIN waits /\ waits[mid] = "waiting"
    /\ futures[mid] # "pending"
    /\ waits' = [waits EXCEPT ![mid] = IF futures[mid] = "timeout"
                                       THEN "TimeoutError" ELSE "response"]

A2ATick(d) ==
    /\ clock + d <= MaxClock
    /\ clock' = clock + d

(***************************************************************************)
(* The MessageRouter with agents that register, send, answer and wait.     *)
(***************************************************************************)
MsgProfiles     == {AgentProfile({"c1"}, 1, 0)}
\* <<requires_response, response_timeout in seconds>>
MsgSendModes    == {<<FALSE, None>>, <<TRUE, None>>, <<TRUE, 1>>}
MsgTickSteps    == {UnitsPerSecond}

MsgFrame == UNCHANGED <<coreVars, fnVars, collabVars>>

MR_RegisterAgent ==
    /\ \E id \in AgentIds, p \in MsgProfiles : A2ARegisterAgent(id, p)
    /\ UNCHANGED <<clock, message_handlers, messages, pending_responses,
                   futures, tasks, waits>>
    /\ MsgFrame
    /\ UNCHANGED agentVars

MR_RegisterHandler ==
    /\ \E id \in AgentIds : RegisterHandler(id)
    /\ UNCHANGED <<clock, registry_agents, registry_order, registry_index,
                   messages, pending_responses, futures, tasks, waits>>
    /\ MsgFrame
    /\ UNCHANGED agentVars

MR_Send ==
    /\ \E sender \in AgentIds, receiver \in AgentIds, mode \in MsgSendModes :
           /\ sender # receiver
           /\ SendMessage(sender, receiver, mode[1], Seconds(mode[2]))
    /\ UNCHANGED <<clock, registry_agents, registry_order, registry_index,
                   message_handlers, waits>>
    /\ MsgFrame
    /\ UNCHANGED agentVars

MR_Deliver ==
    /\ \E task \in tasks, responds \in BOOLEAN : DeliverMessage(task, responds)
    /\ UNCHANGED <<clock, registry_agents, registry_order, registry_index,
                   message_handlers, waits>>
    /\ MsgFrame
    /\ UNCHANGED agentVars

MR_Watchdog ==
    /\ \E task \in tasks : HandleResponseTimeout(task)
    /\ UNCHANGED <<clock, registry_agents, registry_order, registry_index,
                   message_handlers, waits>>
    /\ MsgFrame
    /\ UNCHANGED agentVars

MR_Wait ==
    /\ \E mid \in 1..Len(messages) : WaitForResponse(mid)
    /\ UNCHANGED <<clock, registry_agents, registry_order, registry_index,
                   message_handlers, messages, pending_responses, futures, tasks>>
    /\ MsgFrame
    /\ UNCHANGED agentVars

MR_WaitResume ==
    /\ \E mid \in DOMAIN waits : WaitResume(mid)
    /\ UNCHANGED <<clock, registry_agents, registry_order, registry_index,
                   message_handlers, messages, pending_responses, futures, tasks>>
    /\ MsgFrame
    /\ UNCHANGED agentVars

MR_Tick ==
    /\ \E d \in MsgTickSteps : A2ATick(d)
    /\ UNCHANGED <<msgVars, collabVars, coreVars, fnVars>>
    /\ UNCHANGED agentVars

MessageInit ==
    ClockInit /\ CBInit /\ RouterInit /\ A2AInit /\ FnInit /\ AgentInit

MessageNext ==
    \/ MR_RegisterAgent
    \/ MR_RegisterHandler
    \/ MR_Send
    \/ MR_Deliver
    \/ MR_Watchdog
    \/ MR_Wait
    \/ MR_WaitResume
    \/ MR_Tick

SpecMessage == MessageInit /\ [][MessageNext]_vars

(***************************************************************************)
(* CollaborationOrchestrator.initiate_consensus_building with              *)
(* _collect_consensus_responses and handle_consensus_response              *)
(* (a2a_communication.py 303-421, 537-544).  The requests are routed       *)
(* without suspension; the call then polls, asleep for a poll interval at  *)
(* a time.  A sleep ends late by less than one poll interval.              *)
(*   cc.pc     idle | polling | returned                                   *)
(*   cc.id     the collaboration_id                                        *)
(*   cc.start  start_time of the poll loop, cc.wake the end of its sleep   *)
(*   cc.participants, cc.responses, cc.result   the arguments and, once    *)
(*             returned, the "responses" and the analysis of the result    *)
(* and, for the properties, cc.complete_at (when the last participant's    *)
(* response came in) and cc.returned_at.                                   *)
(* active_collaborations[id].responses is the dict in insertion order, a   *)
(* list of [sender, decision].                                             *)
(***************************************************************************)
MaxOvershoot == PollInterval - 1

Senders(responses) == {responses[i].sender : i \in 1..Len(responses)}

\* collaboration["responses"][message.sender_id] = content
put_response(responses, sender, decision) ==
    IF sender \in Senders(responses)
    THEN [i \in 1..Len(responses) |->
             IF responses[i].sender = sender
             THEN [sender |-> sender, decision |-> decision] ELSE responses[i]]
    ELSE Append(responses, [sender |-> sender, decision |-> decision])

\* the mutant of the loop condition: the deadline is not looked at
keep_polling_no_deadline(elapsed, timeout, responses, participants) ==
    Len(responses) < Len(participants)

\* lines 355-358: the loop sleeps again
keep_polling(elapsed, timeout, responses, participants) ==
    /\ elapsed < timeout
    /\ Len(responses) < Len(participants)

NoDecision == ""        \* a response without a "decision" key

Votes(responses, d) ==
    Cardinality({i \in 1..Len(responses) : responses[i].decision = d})

\* the mutant of the threshold: more than 0.6 is asked for
analyze_consensus_above(responses) ==
    LET decided == SelectSeq(responses, LAMBDA r : r.decision # NoDecision)
    IN IF responses = << >>
       THEN [consensus_achieved |-> FALSE, agreement_score |-> <<0, 1>>,
             final_decision |-> NoDecision, dissenting_agents |-> << >>]
       ELSE IF decided = << >>
       THEN [consensus_achieved |-> FALSE, agreement_score |-> <<0, 1>>,
             final_decision |-> NoDecision,
             dissenting_agents |-> [i \in 1..Len(responses) |-> responses[i].sender]]
       ELSE LET first == CHOOSE i \in 1..Len(decided) :
                            /\ \A j \in 1..Len(decided) :
                                   Votes(decided, decided[j].decision)
                                       <= Votes(decided, decided[i].decision)
                            /\ \A j \in 1..(i - 1) :
                                   Votes(decided, decided[j].decision)
                                       < Votes(decided, decided[i].decision)
                majority == decided[first].decision
                count    == Votes(decided, majority)
                against  == SelectSeq(responses, LAMBDA r : r.decision # majority)
            IN [consensus_achieved |-> 10 * count > 6 * Len(decided),
                agreement_score |-> <<count, Len(decided)>>,
                final_decision |-> majority,
                dissenting_agents |-> [i \in 1..Len(against) |-> against[i].sender]]

\* lines 376-421; agreement_score is the fraction <<votes, decisions>>
analyze_consensus(responses) ==
    LET decided == SelectSeq(responses, LAMBDA r : r.decision # NoDecision)
    IN IF responses = << >>
       THEN [consensus_achieved |-> FALSE, agreement_score |-> <<0, 1>>,
             final_decision |-> NoDecision, dissenting_agents |-> << >>]
       ELSE IF decided = << >>
       THEN [consensus_achieved |-> FALSE, agreement_score |-> <<0, 1>>,
             final_decision |-> NoDecision,
             dissenting_agents |-> [i \in 1..Len(responses) |-> responses[i].sender]]
       ELSE LET first == CHOOSE i \in 1..Len(decided) :
                            /\ \A j \in 1..Len(decided) :
                                   Votes(decided, decided[j].decision)
                                       <= Votes(decided, decided[i].decision)
                            /\ \A j \in 1..(i - 1) :
                                   Votes(decided, decided[j].decision)
                                       < Votes(decided, decided[i].decision)
                majority == decided[first].decision
                count    == Votes(decided, majority)
                against  == SelectSeq(responses, LAMBDA r : r.decision # majority)
            IN [consensus_achieved |-> 10 * count >= 6 * Len(decided),
                agreement_score |-> <<count, Len(decided)>>,
                final_decision |-> majority,
                dissenting_agents |-> [i \in 1..Len(against) |-> against[i].sender]]

\* the requests of a collaboration, routed one after the other
RECURSIVE send_requests(_, _, _, _, _)
send_requests(st, receivers, timeout, ttl, t) ==
    IF receivers = << >> THEN st
    ELSE send_requests(
             send(st, AgentMessage("orchestrator", Head(receivers), "request",
                                   TRUE, timeout, ttl, None), t).st,
             Tail(receivers), timeout, ttl, t)

\* lines 360-374: analyse, delete the collaboration, return
ConsensusFinish(cols, call) ==
    /\ active_collaborations' = Del(cols, call.id)
    /\ cc' = [call EXCEPT !.pc = "returned", !.returned_at = clock,
                          !.responses = cols[call.id].responses,
                          !.result = analyze_consensus(cols[call.id].responses)]

\* lines 303-358, to the first sleep or to the return
InitiateConsensus(participants, timeout) ==
    /\ cc.pc = "idle" /\ pr.pc = "idle"
    /\ cc.id < MaxCollaborations
    /\ Len(messages) + Len(participants) <= MaxMessages
    /\ clock + timeout + PollInterval <= MaxClock
    /\ LET id   == cc.id + 1
           cols == Put(active_collaborations, id,
                       [participants |-> participants, responses |-> << >>,
                        started_at |-> clock, timeout |-> timeout])
           call == [pc |-> "polling", id |-> id, start |-> clock,
                    timeout |-> timeout, wake |-> clock + PollInterval,
                    complete_at |-> None, returned_at |-> None,
                    participants |-> participants, responses |-> << >>,
                    result |-> analyze_consensus(<< >>)]
       IN /\ SetRouterState(send_requests(RouterState, participants, timeout,
                                           clock + timeout, clock))
          /\ IF keep_polling(0, timeout, << >>, participants)
             THEN cc' = call /\ active_collaborations' = cols
             ELSE ConsensusFinish(cols, call)

\* the poll loop wakes: lines 355-358
ConsensusPoll ==
    /\ cc.pc = "polling" /\ clock >= cc.wake
    /\ LET col == active_collaborations[cc.id]
       IN IF keep_polling(clock - cc.start, cc.timeout, col.responses,
                          col.participants)
          THEN /\ cc' = [cc EXCEPT !.wake = clock + PollInterval]
               /\ UNCHANGED active_collaborations
          ELSE ConsensusFinish(active_collaborations, cc)

\* the caller has the result
ConsensusReturn ==
    /\ cc.pc = "returned"
    /\ cc' = [pc |-> "idle", id |-> cc.id]

\* the mutant of handle_consensus_response: a response for an id that is not
\* active opens a record for it
HandleConsensusResponseAnyId(sender, id, decision) ==
    /\ active_collaborations' =
           IF id \in DOMAIN active_collaborations
           THEN [active_collaborations EXCEPT ![id].responses =
                    put_response(@, sender, decision)]
           ELSE Put(active_collaborations, id,
                    [participants |-> << >>,
                     responses |-> put_response(<< >>, sender, decision),
                     started_at |-> clock, timeout |-> 0])
    /\ UNCHANGED cc

\* handle_consensus_response, lines 537-544
HandleConsensusResponse(sender, id, decision) ==
    IF id \in DOMAIN active_collaborations
    THEN LET col == active_collaborations[id]
             rs  == put_response(col.responses, sender, decision)
         IN /\ active_collaborations' =
                   [active_collaborations EXCEPT ![id].responses = rs]
            /\ cc' = IF /\ cc.pc = "polling" /\ cc.id = id
                        /\ cc.complete_at = None
                        /\ ListSet(col.participants) \subseteq Senders(rs)
                     THEN [cc EXCEPT !.complete_at = clock] ELSE cc
    ELSE UNCHANGED <<active_collaborations, cc>>

(***************************************************************************)
(* A consensus call with agents that register, answer or stay silent.      *)
(***************************************************************************)
ConsensusParticipants == {<< >>, <<"a1">>, <<"a1", "a2">>}
ConsensusTimeouts     == {0, 1}                   \* seconds
CsDecisions           == {"buy"}

CS_Initiate ==
    /\ \E ps \in ConsensusParticipants, timeout \in ConsensusTimeouts :
           InitiateConsensus(ps, Seconds(timeout))
    /\ UNCHANGED <<clock, registry_agents, registry_order, registry_index,
                   message_handlers, waits, pr, coreVars, fnVars>>
    /\ UNCHANGED agentVars

CS_Poll ==
    /\ ConsensusPoll
    /\ UNCHANGED <<clock, msgVars, pr, coreVars, fnVars>>
    /\ UNCHANGED agentVars

CS_Return ==
    /\ ConsensusReturn
    /\ UNCHANGED <<clock, msgVars, active_collaborations, pr, coreVars, fnVars>>
    /\ UNCHANGED agentVars

CS_Response ==
    /\ cc.pc # "returned"
    /\ \E sender \in AgentIds, id \in 1..MaxCollaborations, d \in CsDecisions :
           HandleConsensusResponse(sender, id, d)
    /\ UNCHANGED <<clock, msgVars, pr, coreVars, fnVars>>
    /\ UNCHANGED agentVars

CS_RegisterAgent == cc.pc # "returned" /\ MR_RegisterAgent

CS_RegisterHandler == cc.pc # "returned" /\ MR_RegisterHandler

\* a participant answers through handle_consensus_response; its handler
\* returns nothing
CS_Deliver ==
    /\ cc.pc # "returned"
    /\ \E task \in tasks : DeliverMessage(task, FALSE)
    /\ UNCHANGED <<clock, registry_agents, registry_order, registry_index,
                   message_handlers, waits>>
    /\ MsgFrame
    /\ UNCHANGED agentVars

CS_Watchdog == cc.pc # "returned" /\ MR_Watchdog

\* time passes during the call, but not beyond the moment the sleeping poll
\* is awake
CS_Tick ==
    /\ cc.pc = "polling"
    /\ clock < cc.wake + MaxOvershoot
    /\ A2ATick(1)
    /\ UNCHANGED <<msgVars, collabVars, coreVars, fnVars>>
    /\ UNCHANGED agentVars

ConsensusInit ==
    ClockInit /\ CBInit /\ RouterInit /\ A2AInit /\ FnInit /\ AgentInit

ConsensusNext ==
    \/ CS_RegisterAgent
    \/ CS_RegisterHandler
    \/ CS_Initiate
    \/ CS_Poll
    \/ CS_Response
    \/ CS_Deliver
    \/ CS_Watchdog
    \/ CS_Tick
    \/ CS_Return

SpecConsensus == ConsensusInit /\ [][ConsensusNext]_vars

(***************************************************************************)
(* CollaborationOrchestrator.orchestrate_peer_review (423-484).  The       *)
(* requests are routed without suspension, then the responses are awaited  *)
(* one after the other with wait_for_response; only TimeoutError is        *)
(* caught.                                                                 *)
(*   pr.pc       idle | waiting | returned | raised                        *)
(*   pr.mids     the message ids of review_messages, pr.idx the one waited *)
(*               for, pr.reviews the senders of the responses collected    *)
(***************************************************************************)
PeerReviewTimeout == 120        \* response_timeout of a review request, s

\* the index of the agent sorted(..., reverse=True) puts first: the highest
\* (reputation_score, -load_factor), the earliest of equals
best_reviewer(list) ==
    LET before(a, b) ==
            \/ registry_agents[a].reputation_score > registry_agents[b].reputation_score
            \/ /\ registry_agents[a].reputation_score = registry_agents[b].reputation_score
               /\ registry_agents[a].load_factor < registry_agents[b].load_factor
    IN CHOOSE i \in 1..Len(list) :
           /\ \A j \in 1..Len(list) : ~before(list[j], list[i])
           /\ \A j \in 1..(i - 1) : before(list[i], list[j])

RECURSIVE sort_reviewers(_)
sort_reviewers(list) ==
    IF list = << >> THEN << >>
    ELSE LET i == best_reviewer(list)
         IN <<list[i]>> \o sort_reviewers(
                [k \in 1..(Len(list) - 1) |-> IF k < i THEN list[k] ELSE list[k + 1]])

\* lines 433-448
selected_reviewers(subject, num_reviewers) ==
    LET eligible == SelectSeq(registry_order, LAMBDA a : a # subject)
        n        == IF Len(eligible) < num_reviewers THEN Len(eligible)
                    ELSE num_reviewers
    IN SubSeq(sort_reviewers(eligible), 1, n)

\* lines 475-484 from review_messages[i] on: wait_for_response raises
\* ValueError without a slot, else the call awaits the Future
collect_reviews(call, i, pending) ==
    IF i > Len(call.mids)
    THEN [call EXCEPT !.pc = "returned", !.idx = i]
    ELSE IF call.mids[i] \notin pending
    THEN [call EXCEPT !.pc = "raised", !.idx = i]
    ELSE [call EXCEPT !.pc = "waiting", !.idx = i]

OrchestratePeerReview(subject, num_reviewers) ==
    /\ pr.pc = "idle" /\ cc.pc = "idle"
    /\ pr.id < MaxCollaborations
    /\ LET reviewers == selected_reviewers(subject, num_reviewers)
           st        == send_requests(RouterState, reviewers,
                                      Seconds(PeerReviewTimeout), None, clock)
           call      == [pc |-> "waiting", id |-> pr.id + 1,
                         mids |-> [k \in 1..Len(reviewers) |-> Len(messages) + k],
                         idx |-> 1, reviews |-> << >>]
       IN /\ Len(messages) + Len(reviewers) <= MaxMessages
          /\ SetRouterState(st)
          /\ pr' = collect_reviews(call, 1, st.pending_responses)

\* the awaited Future is done: lines 477-481, then on with the loop
PeerReviewResume ==
    /\ pr.pc = "waiting"
    /\ LET mid == pr.mids[pr.idx]
       IN /\ futures[mid] # "pending"
          /\ pr' = collect_reviews(
                 IF futures[mid] = "timeout" THEN pr
                 ELSE [pr EXCEPT !.reviews = Append(@, messages[mid].receiver_id)],
                 pr.idx + 1, pending_responses)

\* the caller has the aggregate, or the exception
PeerReviewReturn ==
    /\ pr.pc \in {"returned", "raised"}
    /\ pr' = [pc |-> "idle", id |-> pr.id]

\* the loop sleeps until its next timer is due
NextTimer == {t \in {task.due : task \in tasks} :
                 /\ t > clock
                 /\ \A task \in tasks : task.due > clock => task.due >= t}

(***************************************************************************)
(* A peer review with agents that register, answer or stay silent.         *)
(***************************************************************************)
ReviewProfiles == {AgentProfile({"c1"}, 1, 0), AgentProfile({"c1"}, 2, 0)}
ReviewSubjects == {"a1", "a3"}
ReviewCounts   == {1, 3}

PR_RegisterAgent ==
    /\ pr.pc \in {"idle", "waiting"}
    /\ \E id \in AgentIds, p \in ReviewProfiles : A2ARegisterAgent(id, p)
    /\ UNCHANGED <<clock, message_handlers, messages, pending_responses,
                   futures, tasks, waits>>
    /\ MsgFrame
    /\ UNCHANGED agentVars

PR_RegisterHandler == pr.pc \in {"idle", "waiting"} /\ MR_RegisterHandler

PR_Orchestrate ==
    /\ \E subject \in ReviewSubjects, n \in ReviewCounts :
           OrchestratePeerReview(subject, n)
    /\ UNCHANGED <<clock, registry_agents, registry_order, registry_index,
                   message_handlers, waits, active_collaborations, cc, coreVars, fnVars>>
    /\ UNCHANGED agentVars

PR_Resume ==
    /\ PeerReviewResume
    /\ UNCHANGED <<clock, msgVars, active_collaborations, cc, coreVars, fnVars>>
    /\ UNCHANGED agentVars

PR_Return ==
    /\ PeerReviewReturn
    /\ UNCHANGED <<clock, msgVars, active_collaborations, cc, coreVars, fnVars>>
    /\ UNCHANGED agentVars

PR_Deliver == pr.pc \in {"idle", "waiting"} /\ MR_Deliver

PR_Watchdog == pr.pc \in {"idle", "waiting"} /\ MR_Watchdog

PR_Tick ==
    /\ pr.pc \in {"idle", "waiting"}
    /\ \E t \in NextTimer : clock' = t
    /\ UNCHANGED <<msgVars, collabVars, coreVars, fnVars>>
    /\ UNCHANGED agentVars

ReviewInit ==
    ClockInit /\ CBInit /\ RouterInit /\ A2AInit /\ FnInit /\ AgentInit

ReviewNext ==
    \/ PR_RegisterAgent
    \/ PR_RegisterHandler
    \/ PR_Orchestrate
    \/ PR_Resume
    \/ PR_Deliver
    \/ PR_Watchdog
    \/ PR_Tick
    \/ PR_Return

SpecReview == ReviewInit /\ [][ReviewNext]_vars

(***************************************************************************)
(* _analyze_consensus on its own (a2a_communication.py 376-421): the call  *)
(* is made on every dict of responses of up to MaxResponses senders, in    *)
(* the order the responses came in; a response carries "buy", "sell" or no *)
(* "decision" key.                                                         *)
(***************************************************************************)
MaxResponses == 5           \* responses in the dict analysed

ResponseDecisions == {"buy", "sell", NoDecision}

ResponseLists ==
    UNION {{[i \in 1..n |-> [sender |-> ToString(i), decision |-> f[i]]] :
               f \in [1..n -> ResponseDecisions]} : n \in 0..MaxResponses}

AN_Analyze ==
    /\ ~fn_result.done
    /\ fn_result' = [done |-> TRUE, value |-> analyze_consensus(fn_args[1])]
    /\ UNCHANGED <<fn_args, delivered, coreVars, a2aVars>>
    /\ UNCHANGED agentVars

AnalysisInit ==
    /\ ClockInit /\ CBInit /\ RouterInit /\ A2AInit
    /\ fn_args \in {<<rs>> : rs \in ResponseLists}
    /\ fn_result = NotCalled
    /\ delivered = << >>
    /\ AgentInit

AnalysisNext ==
    \/ AN_Analyze

SpecAnalysis == AnalysisInit /\ [][AnalysisNext]_vars

(***************************************************************************)
(* _aggregate_peer_reviews on its own (a2a_communication.py 486-535).      *)
(* reviews is the dict in insertion order, a list of [reviewer, scores];   *)
(* scores[c] is the score the response supplies for criterion c, in        *)
(* tenths, or None when it supplies none (no "scores" key, or no entry for *)
(* c).  An average is the exact fraction <<sum, count>>.                   *)
(***************************************************************************)
MaxReviews == 2             \* reviews in the dict aggregated

AllCriteria    == {"accuracy", "risk"}
ReviewCriteria == {<< >>, <<"accuracy">>, <<"accuracy", "risk">>}
ScoreValues    == {6, 8}

RECURSIVE SumSeq(_)
SumSeq(s) == IF s = << >> THEN 0 ELSE Head(s) + SumSeq(Tail(s))

\* review.get("scores", {}).get(criterion, 0.0)
score_or_zero(review, criterion) ==
    IF review.scores[criterion] = None THEN 0 ELSE review.scores[criterion]

\* lines 494-513: overall_score and criteria_scores of the aggregate
aggregate_peer_reviews(reviews, criteria) ==
    IF reviews = << >>
    THEN [overall_score |-> <<0, 1>>, criteria_scores |-> << >>]
    ELSE LET total(c) == SumSeq([i \in 1..Len(reviews) |->
                                    score_or_zero(reviews[i], c)])
             keys     == SetToList(ListSet(criteria))
         IN [criteria_scores |->
                 [c \in ListSet(criteria) |-> <<total(c), Len(reviews)>>],
             overall_score |->
                 IF criteria = << >> THEN <<0, 1>>
                 ELSE <<SumSeq([i \in 1..Len(keys) |-> total(keys[i])]),
                        Len(reviews) * Len(keys)>>]

ReviewLists ==
    UNION {{[i \in 1..n |-> [reviewer |-> ToString(i), scores |-> f[i]]] :
               f \in [1..n -> [AllCriteria -> ScoreValues \cup {None}]]} :
           n \in 0..MaxReviews}

AG_Aggregate ==
    /\ ~fn_result.done
    /\ fn_result' = [done |-> TRUE,
                     value |-> aggregate_peer_reviews(fn_args[1], fn_args[2])]
    /\ UNCHANGED <<fn_args, delivered, coreVars, a2aVars>>
    /\ UNCHANGED agentVars

AggregationInit ==
    /\ ClockInit /\ CBInit /\ RouterInit /\ A2AInit
    /\ fn_args \in {<<rs, cr>> : rs \in ReviewLists, cr \in ReviewCriteria}
    /\ fn_result = NotCalled
    /\ delivered = << >>
    /\ AgentInit

AggregationNext ==
    \/ AG_Aggregate

SpecAggregation == AggregationInit /\ [][AggregationNext]_vars

(***************************************************************************)
(* The selection strategies of CentralRouter (central_router.py 287-302)   *)
(* under route_message calls and route requests of the control topic       *)
(* (_handle_route_message, 353-365), with agents that register and send    *)
(* heartbeats between the calls.  The clock stands still.                  *)
(***************************************************************************)
MaxDelivered == 3           \* cap on stats.messages_routed in these runs
MaxRaised    == 1           \* publishes that raise in these runs

\* the "strategy" strings a route request may carry: the values of
\* RoutingStrategy and one that is none of them
StrategyRequests == Strategies \cup {"weighted"}

\* lines 353-365: RoutingStrategy(value) raises ValueError for a string that
\* is not a value of the enum; the handler logs it and routes nothing
HandleRouteMessage(kind, dest, value) ==
    IF value \in Strategies
    THEN RouteBegin(kind, dest, value)
    ELSE /\ rt.pc = "idle"
         /\ rt' = Return([RouteIdle EXCEPT
                              !.strategy = value,
                              !.resolved = destination_agents(kind, dest) # << >>,
                              !.passed = passing(destination_agents(kind, dest))],
                         FALSE)
         /\ UNCHANGED <<registryVars, routing_counters>>

\* the record of a call that returned: a round_robin call that delivered at
\* its first attempt goes on the list, any other call starts the list again
delivered_after(call) ==
    IF call.strategy = "round_robin" /\ call.ret /\ Len(call.attempts) = 1
    THEN LET e == [healthy |-> call.healthy, agent |-> call.attempts[1].agent]
         IN IF delivered # << >> /\ delivered[1].healthy # call.healthy
            THEN <<e>> ELSE Append(delivered, e)
    ELSE << >>

StrategyFrame == UNCHANGED <<clockVars, breakerVars, a2aVars, fn_args, fn_result>>

ST_Register ==
    /\ rt.pc = "idle"
    /\ \E id \in AgentIds : RegisterAgent(id, "t1", <<"c1">>, HEALTHY)
    /\ delivered' = << >>
    /\ UNCHANGED <<routing_counters, rt>> /\ StrategyFrame
    /\ UNCHANGED agentVars

ST_Heartbeat ==
    /\ rt.pc = "idle"
    /\ \E id \in AgentIds, load \in LoadInputs : HandleAgentHeartbeat(id, load)
    /\ delivered' = << >>
    /\ UNCHANGED <<routing_counters, rt>> /\ StrategyFrame
    /\ UNCHANGED agentVars

ST_Begin ==
    /\ \E strategy \in Strategies : RouteBegin("type", "t1", strategy)
    /\ rt'.pc = "deliver1" => stats.messages_routed < MaxDelivered
    /\ UNCHANGED delivered /\ StrategyFrame
    /\ UNCHANGED agentVars

ST_Request ==
    /\ \E value \in StrategyRequests : HandleRouteMessage("type", "t1", value)
    /\ rt'.pc = "deliver1" => stats.messages_routed < MaxDelivered
    /\ UNCHANGED delivered /\ StrategyFrame
    /\ UNCHANGED agentVars

ST_Deliver1 ==
    /\ \E ok \in BOOLEAN : (ok \/ stats.routing_errors < MaxRaised) /\ RouteDeliver1(ok)
    /\ UNCHANGED delivered /\ StrategyFrame
    /\ UNCHANGED agentVars

ST_Deliver2 ==
    /\ \E ok \in BOOLEAN : RouteDeliver2(ok)
    /\ UNCHANGED delivered /\ StrategyFrame
    /\ UNCHANGED agentVars

ST_Return ==
    /\ RouteReturn
    /\ delivered' = delivered_after(rt)
    /\ StrategyFrame
    /\ UNCHANGED agentVars

StrategyInit ==
    ClockInit /\ CBInit /\ RouterInit /\ A2AInit /\ FnInit /\ AgentInit

StrategyNext ==
    \/ ST_Register
    \/ ST_Heartbeat
    \/ ST_Begin
    \/ ST_Request
    \/ ST_Deliver1
    \/ ST_Deliver2
    \/ ST_Return

SpecStrategy == StrategyInit /\ [][StrategyNext]_vars

(***************************************************************************)
(* The two registries and their lookups: CentralRouter (register_agent,    *)
(* _unregister_agent, _handle_agent_heartbeat, the health monitor and the  *)
(* cleanup pass) and AgentRegistry of a2a_communication.py (register_agent *)
(* 113-129, unregister_agent 131-151, find_agents_by_capability 153-156,   *)
(* update_agent_status 181-188, cleanup_stale_agents 190-201).  The two    *)
(* objects share no state: a run exercises the one fn_args names.          *)
(*   fn_result.value   the last call made on it: op, id, whether the id    *)
(*                     was registered when the call was made (known), the  *)
(*                     type and capabilities a registration declared, the  *)
(*                     registry as a heartbeat for an id that was not      *)
(*                     registered found it (before), and the ids           *)
(*                     registered so far in the run (seen)                 *)
(***************************************************************************)
StaleAfter == 300           \* cleanup_stale_agents, timeout_minutes=5, seconds

RegistryObjects  == {"CentralRouter", "AgentRegistry"}
RegistryProfiles == {AgentProfile({"c1"}, 1, 0), AgentProfile({"c1", "c2"}, 1, 0)}
StatusInputs     == {"busy"}
StatusLoads      == {None, 50}
StaleTickSteps   == {Seconds(StaleAfter) + 1}
StaleHorizon     == 2 * Seconds(StaleAfter)

\* AgentRegistry.unregister_agent, lines 131-151
A2AUnregisterAgent(id) ==
    IF id \in DOMAIN registry_agents
    THEN LET caps == registry_agents[id].capabilities
             left(c) == IF c \in caps THEN registry_index[c] \ {id}
                        ELSE registry_index[c]
         IN /\ registry_index' =
                   [c \in {k \in DOMAIN registry_index : left(k) # {}} |-> left(c)]
            /\ registry_agents' = Del(registry_agents, id)
            /\ registry_order' = SelectSeq(registry_order, LAMBDA a : a # id)
    ELSE UNCHANGED <<registry_agents, registry_order, registry_index>>

\* find_agents_by_capability, lines 153-156: the ids of the profiles returned
find_agents_by_capability(capability) ==
    IF capability \in DOMAIN registry_index
    THEN {id \in registry_index[capability] : id \in DOMAIN registry_agents}
    ELSE {}

\* update_agent_status, lines 181-188
UpdateAgentStatus(id, status, load) ==
    /\ registry_agents' =
           IF id \in DOMAIN registry_agents
           THEN [registry_agents EXCEPT
                    ![id].status = status,
                    ![id].last_heartbeat = clock,
                    ![id].load_factor = IF load = None THEN @ ELSE load]
           ELSE registry_agents
    /\ UNCHANGED <<registry_order, registry_index>>

\* the registry <<agents, order, index>> after unregister_agent(id) for each
\* id of the list
RECURSIVE a2a_unregister_all(_, _)
a2a_unregister_all(st, ids) ==
    IF ids = << >> THEN st
    ELSE LET id   == Head(ids)
             caps == st[1][id].capabilities
             left(c) == IF c \in caps THEN st[3][c] \ {id} ELSE st[3][c]
         IN a2a_unregister_all(
                <<Del(st[1], id), SelectSeq(st[2], LAMBDA a : a # id),
                  [c \in {k \in DOMAIN st[3] : left(k) # {}} |-> left(c)]>>,
                Tail(ids))

\* cleanup_stale_agents, lines 190-201
CleanupStaleAgents ==
    LET stale == SelectSeq(registry_order, LAMBDA a :
                     /\ registry_agents[a].last_heartbeat # None
                     /\ registry_agents[a].last_heartbeat
                            < clock - Seconds(StaleAfter))
        st == a2a_unregister_all(
                  <<registry_agents, registry_order, registry_index>>, stale)
    IN /\ registry_agents' = st[1]
       /\ registry_order' = st[2]
       /\ registry_index' = st[3]

A2ARegistryState == <<registry_agents, registry_order, registry_index>>

Seen == IF fn_result.done THEN fn_result.value.seen ELSE {}

LastCall(op, id, known, type, caps, before, seen) ==
    [done |-> TRUE,
     value |-> [op |-> op, id |-> id, known |-> known, type |-> type,
                caps |-> caps, before |-> before, seen |-> seen]]

OtherCall(op) == LastCall(op, "", FALSE, "", {}, << >>, Seen)

CentralRouterFrame ==
    UNCHANGED <<breakerVars, routing_counters, routeVars, a2aVars, fn_args, delivered>>

AgentRegistryFrame ==
    UNCHANGED <<coreVars, collabVars, message_handlers, messages,
                pending_responses, futures, tasks, waits, fn_args, delivered>>

CR_Register ==
    /\ fn_args[1] = "CentralRouter"
    /\ \E id \in AgentIds, type \in AgentTypes, caps \in CapLists :
           /\ RegisterAgent(id, type, caps, HEALTHY)
           /\ fn_result' = LastCall("register", id, id \in DOMAIN agents, type,
                                    ListSet(caps), << >>, Seen \cup {id})
    /\ UNCHANGED clockVars /\ CentralRouterFrame
    /\ UNCHANGED agentVars

CR_Unregister ==
    /\ fn_args[1] = "CentralRouter"
    /\ \E id \in AgentIds : UnregisterAgent(id)
    /\ fn_result' = OtherCall("unregister")
    /\ UNCHANGED clockVars /\ CentralRouterFrame
    /\ UNCHANGED agentVars

CR_Heartbeat ==
    /\ fn_args[1] = "CentralRouter"
    /\ \E id \in AgentIds, load \in LoadInputs :
           /\ HandleAgentHeartbeat(id, load)
           /\ fn_result' = LastCall("heartbeat", id, id \in DOMAIN agents, "", {},
                                    IF id \in DOMAIN agents THEN << >>
                                    ELSE RegistryState, Seen)
    /\ UNCHANGED clockVars /\ CentralRouterFrame
    /\ UNCHANGED agentVars

CR_HealthMonitor ==
    /\ fn_args[1] = "CentralRouter"
    /\ HealthMonitorTask
    /\ fn_result' = OtherCall("health_monitor")
    /\ UNCHANGED clockVars /\ CentralRouterFrame
    /\ UNCHANGED agentVars

CR_Cleanup ==
    /\ fn_args[1] = "CentralRouter"
    /\ CleanupTask
    /\ fn_result' = OtherCall("cleanup")
    /\ UNCHANGED clockVars /\ CentralRouterFrame
    /\ UNCHANGED agentVars

CR_Tick ==
    /\ fn_args[1] = "CentralRouter"
    /\ \E d \in RegistryTickSteps : Tick(d)
    /\ fn_result' = OtherCall("tick")
    /\ UNCHANGED registryVars /\ CentralRouterFrame
    /\ UNCHANGED agentVars

AR_Register ==
    /\ fn_args[1] = "AgentRegistry"
    /\ \E id \in AgentIds, p \in RegistryProfiles :
           /\ A2ARegisterAgent(id, p)
           /\ fn_result' = LastCall("register", id, id \in DOMAIN registry_agents,
                                    "", p.capabilities, << >>, Seen \cup {id})
    /\ UNCHANGED clock /\ AgentRegistryFrame
    /\ UNCHANGED agentVars

AR_Unregister ==
    /\ fn_args[1] = "AgentRegistry"
    /\ \E id \in AgentIds : A2AUnregisterAgent(id)
    /\ fn_result' = OtherCall("unregister")
    /\ UNCHANGED clock /\ AgentRegistryFrame
    /\ UNCHANGED agentVars

AR_UpdateStatus ==
    /\ fn_args[1] = "AgentRegistry"
    /\ \E id \in AgentIds, status \in StatusInputs, load \in StatusLoads :
           /\ UpdateAgentStatus(id, status, load)
           /\ fn_result' = LastCall("heartbeat", id, id \in DOMAIN registry_agents,
                                    "", {},
                                    IF id \in DOMAIN registry_agents THEN << >>
                                    ELSE A2ARegistryState, Seen)
    /\ UNCHANGED clock /\ AgentRegistryFrame
    /\ UNCHANGED agentVars

AR_Cleanup ==
    /\ fn_args[1] = "AgentRegistry"
    /\ CleanupStaleAgents
    /\ fn_result' = OtherCall("cleanup")
    /\ UNCHANGED clock /\ AgentRegistryFrame
    /\ UNCHANGED agentVars

AR_Tick ==
    /\ fn_args[1] = "AgentRegistry"
    /\ clock < StaleHorizon
    /\ \E d \in StaleTickSteps : clock' = clock + d
    /\ fn_result' = OtherCall("tick")
    /\ UNCHANGED <<registry_agents, registry_order, registry_index>>
    /\ AgentRegistryFrame
    /\ UNCHANGED agentVars

RegistriesInit ==
    /\ ClockInit /\ CBInit /\ RouterInit /\ A2AInit
    /\ fn_args \in {<<o>> : o \in RegistryObjects}
    /\ fn_result = NotCalled
    /\ delivered = << >>
    /\ AgentInit

RegistriesNext ==
    \/ CR_Register
    \/ CR_Unregister
    \/ CR_Heartbeat
    \/ CR_HealthMonitor
    \/ CR_Cleanup
    \/ CR_Tick
    \/ AR_Register
    \/ AR_Unregister
    \/ AR_UpdateStatus
    \/ AR_Cleanup
    \/ AR_Tick

SpecRegistries == RegistriesInit /\ [][RegistriesNext]_vars

(***************************************************************************)
(* The CentralRouter's registry on the scale of its health timers          *)
(* (central_router.py 174-192, 328-351, 389-430; base_agent.py 250-266).   *)
(* The clock moves in steps that land on both sides of the 30 s, 60 s and  *)
(* 5 min limits.  fn_result.value records the last call; after a cleanup   *)
(* pass its "before" field lists what the pass evicted.                    *)
(***************************************************************************)
\* the instants a run observes: each limit, and the second after it, counted
\* from a heartbeat at 0 or at the second the agent turned offline
HealthInstants ==
    {0, DegradedAfter, DegradedAfter + 1, OfflineAfter, OfflineAfter + 1,
     EvictAfter, EvictAfter + 1, OfflineAfter + EvictAfter + 1,
     OfflineAfter + EvictAfter + 2}

\* the methods of CentralRouter that _setup_subscriptions names as callbacks
\* and the class defines
DefinedHandlers ==
    {"_handle_agent_registration", "_handle_agent_heartbeat",
     "_handle_route_message", "_handle_broadcast_message"}

\* the subscribe calls of _setup_subscriptions, in order
SubscriptionPlan ==
    << [subject |-> "router.agent.register",    cb |-> "_handle_agent_registration"],
       [subject |-> "router.agent.heartbeat",   cb |-> "_handle_agent_heartbeat"],
       [subject |-> "router.agent.unregister",  cb |-> "_handle_agent_unregistration"],
       [subject |-> "router.message.route",     cb |-> "_handle_route_message"],
       [subject |-> "router.message.broadcast", cb |-> "_handle_broadcast_message"],
       [subject |-> "router.config.update",     cb |-> "_handle_config_update"] >>

\* _setup_subscriptions: evaluating self.<cb> for a method the class lacks
\* raises AttributeError before that subscribe call, and the rest never run
RECURSIVE setup_subscriptions(_)
setup_subscriptions(plan) ==
    IF plan = << >> \/ Head(plan).cb \notin DefinedHandlers THEN {}
    ELSE {Head(plan).subject} \cup setup_subscriptions(Tail(plan))

Subscribed(subject) == subject \in setup_subscriptions(SubscriptionPlan)

\* BaseAgent._unregister_from_router: the publish reaches the subscribers of
\* router.agent.unregister, and the router is not one of them
unregister_from_router(id) ==
    /\ ~Subscribed("router.agent.unregister")
    /\ UNCHANGED registryVars

\* what a cleanup pass at time t evicts, with the silence of each agent
Evicted(t) ==
    LET ids == SetToList({a \in DOMAIN agents : is_evictable(agents[a], t)})
    IN [i \in 1..Len(ids) |->
           [id |-> ids[i], silent |-> t - agents[ids[i]].last_heartbeat]]

HL_Cleanup ==
    /\ fn_args[1] = "CentralRouter"
    /\ CleanupTask
    /\ fn_result' = LastCall("cleanup", "", FALSE, "", {}, Evicted(now), Seen)
    /\ UNCHANGED clockVars /\ CentralRouterFrame
    /\ UNCHANGED agentVars

HL_UnregisterFromRouter ==
    /\ fn_args[1] = "CentralRouter"
    /\ \E id \in AgentIds :
           /\ unregister_from_router(id)
           /\ fn_result' = LastCall("unregister_message", id, id \in DOMAIN agents,
                                    "", {}, << >>, Seen)
    /\ UNCHANGED clockVars /\ CentralRouterFrame
    /\ UNCHANGED agentVars

HL_Register ==
    /\ fn_args[1] = "CentralRouter"
    /\ \E id \in AgentIds :
           /\ RegisterAgent(id, "t1", <<"c1">>, HEALTHY)
           /\ fn_result' = LastCall("register", id, id \in DOMAIN agents, "t1",
                                    {"c1"}, << >>, Seen \cup {id})
    /\ UNCHANGED clockVars /\ CentralRouterFrame
    /\ UNCHANGED agentVars

\* the clock moves to the next instant
HL_Tick ==
    /\ fn_args[1] = "CentralRouter"
    /\ \E t \in HealthInstants :
           /\ t > now
           /\ \A u \in HealthInstants : u > now => t <= u
           /\ now' = t
    /\ fn_result' = OtherCall("tick")
    /\ UNCHANGED <<ticks, registryVars>> /\ CentralRouterFrame
    /\ UNCHANGED agentVars

HealthInit ==
    /\ ClockInit /\ CBInit /\ RouterInit /\ A2AInit
    /\ fn_args = <<"CentralRouter">>
    /\ fn_result = NotCalled
    /\ delivered = << >>
    /\ AgentInit

HealthNext ==
    \/ HL_Register
    \/ CR_Heartbeat
    \/ CR_HealthMonitor
    \/ HL_Cleanup
    \/ HL_UnregisterFromRouter
    \/ HL_Tick

SpecHealth == HealthInit /\ [][HealthNext]_vars

(***************************************************************************)
(* The two broadcasts: CentralRouter._handle_broadcast_message             *)
(* (central_router.py 367-387), which serves the request BaseAgent         *)
(* publishes with its own id as the message's sender_id (base_agent.py     *)
(* 409-438), and A2ACommunicationManager.broadcast_message                 *)
(* (a2a_communication.py 614-644).  A run exercises one of them, named by  *)
(* fn_args[1].  After a broadcast fn_result.value holds the sender in "id" *)
(* and the agents the message was handed to in "before".  The deliveries   *)
(* of one CentralRouter broadcast are taken in one step: no other handler  *)
(* runs between its publishes.                                             *)
(***************************************************************************)
MaxBroadcasts == 2      \* deliveries counted for one agent in a run

BroadcastObjects     == {"CentralRouter", "A2ACommunicationManager"}
BroadcastTypeFilters == {<< >>, <<"t1">>}       \* agent_types of the request
BroadcastCapFilters  == {"", "c1"}              \* capability_filter; "" is None
BroadcastProfiles    == {AgentProfile({"c1"}, 1, 0), AgentProfile({"c2"}, 1, 0)}

Orderings(S) == {s \in [1..Cardinality(S) -> S] : ListSet(s) = S}

\* lines 375-380: target_agents
RECURSIVE extend_targets(_)
extend_targets(types) ==
    IF types = << >> THEN << >>
    ELSE (IF Head(types) \in DOMAIN agent_types THEN agent_types[Head(types)]
          ELSE << >>) \o extend_targets(Tail(types))

\* lines 383-384: one _deliver_message per target, in order; a target missing
\* from agents raises KeyError inside _deliver_message, which returns False, as
\* it does when the publish fails
RECURSIVE deliver_all(_, _, _)
deliver_all(ags, targets, failing) ==
    IF targets = << >> THEN [agents |-> ags, received |-> << >>]
    ELSE LET id   == Head(targets)
             ok   == id \in DOMAIN ags /\ id \notin failing
             rest == deliver_all(count_message(ags, id, ~ok), Tail(targets), failing)
         IN IF ok THEN [rest EXCEPT !.received = <<id>> \o @] ELSE rest

\* _handle_broadcast_message; keys is list(self.agents.keys())
HandleBroadcastMessage(sender, types, keys, failing) ==
    LET targets == IF types # << >> THEN extend_targets(types) ELSE keys
        r       == deliver_all(agents, targets, failing)
    IN /\ agents' = r.agents
       /\ fn_result' = LastCall("broadcast", sender, sender \in DOMAIN agents,
                                "", {}, r.received, Seen)
       /\ UNCHANGED <<agent_types, capabilities_index, circuit_breakers, stats>>

\* lines 632-642: one message per target, handed to send_message
RECURSIVE send_all(_, _, _, _)
send_all(st, sender, targets, t) ==
    IF targets = << >> THEN [st |-> st, success_count |-> 0, received |-> << >>]
    ELSE LET r == send(st, AgentMessage(sender, Head(targets), "broadcast",
                                        FALSE, None, None, None), t)
             rest == send_all(r.st, sender, Tail(targets), t)
         IN IF r.ret
            THEN [rest EXCEPT !.success_count = @ + 1,
                              !.received = <<Head(targets)>> \o @]
            ELSE rest

\* A2ACommunicationManager.broadcast_message; found is the list that
\* find_agents_by_capability or list(self.registry.agents.keys()) returned
BroadcastMessage(sender, found) ==
    LET target_ids == SelectSeq(found, LAMBDA tid : tid # sender)
        r          == send_all(RouterState, sender, target_ids, clock)
    IN /\ Len(messages) + Len(target_ids) <= MaxMessages
       /\ SetRouterState(r.st)
       /\ fn_result' = LastCall("broadcast", sender,
                                sender \in DOMAIN registry_agents,
                                "", {}, r.received, Seen)

BC_Register ==
    /\ fn_args[1] = "CentralRouter"
    /\ \E id \in AgentIds, type \in AgentTypes :
           /\ RegisterAgent(id, type, <<"c1">>, HEALTHY)
           /\ fn_result' = LastCall("register", id, id \in DOMAIN agents, type,
                                    {"c1"}, << >>, Seen \cup {id})
    /\ UNCHANGED clockVars /\ CentralRouterFrame
    /\ UNCHANGED agentVars

BC_Broadcast ==
    /\ fn_args[1] = "CentralRouter"
    /\ \A a \in DOMAIN agents : agents[a].message_count < MaxBroadcasts
    /\ \E sender \in AgentIds, types \in BroadcastTypeFilters,
          keys \in Orderings(DOMAIN agents), failing \in SUBSET AgentIds :
           HandleBroadcastMessage(sender, types, keys, failing)
    /\ UNCHANGED clockVars /\ CentralRouterFrame
    /\ UNCHANGED agentVars

BC_A2ARegister ==
    /\ fn_args[1] = "A2ACommunicationManager"
    /\ \E id \in AgentIds, p \in BroadcastProfiles :
           /\ A2ARegisterAgent(id, p)
           /\ fn_result' = LastCall("register", id, id \in DOMAIN registry_agents,
                                    "", p.capabilities, << >>, Seen \cup {id})
    /\ UNCHANGED <<clock, message_handlers, messages, pending_responses,
                   futures, tasks, waits>>
    /\ UNCHANGED <<coreVars, collabVars, fn_args, delivered>>
    /\ UNCHANGED agentVars

BC_A2ARegisterHandler ==
    /\ fn_args[1] = "A2ACommunicationManager"
    /\ \E id \in AgentIds : RegisterHandler(id)
    /\ fn_result' = OtherCall("register_handler")
    /\ UNCHANGED <<clock, registry_agents, registry_order, registry_index,
                   messages, pending_responses, futures, tasks, waits>>
    /\ UNCHANGED <<coreVars, collabVars, fn_args, delivered>>
    /\ UNCHANGED agentVars

BC_A2ABroadcast ==
    /\ fn_args[1] = "A2ACommunicationManager"
    /\ \E sender \in AgentIds, filter \in BroadcastCapFilters :
           \E found \in Orderings(IF filter # ""
                                  THEN find_agents_by_capability(filter)
                                  ELSE DOMAIN registry_agents) :
               BroadcastMessage(sender, found)
    /\ UNCHANGED <<clock, registry_agents, registry_order, registry_index,
                   message_handlers, waits>>
    /\ UNCHANGED <<coreVars, collabVars, fn_args, delivered>>
    /\ UNCHANGED agentVars

BroadcastInit ==
    /\ ClockInit /\ CBInit /\ RouterInit /\ A2AInit
    /\ fn_args \in {<<o>> : o \in BroadcastObjects}
    /\ fn_result = NotCalled
    /\ delivered = << >>
    /\ AgentInit

BroadcastNext ==
    \/ BC_Register
    \/ BC_Broadcast
    \/ BC_A2ARegister
    \/ BC_A2ARegisterHandler
    \/ BC_A2ABroadcast

SpecBroadcast == BroadcastInit /\ [][BroadcastNext]_vars

(***************************************************************************)
(* AgentRegistry.get_best_agent_for_capability (a2a_communication.py       *)
(* 153-179) on registries of up to two profiles.  reputation_score and     *)
(* service_level are in tenths, load_factor in hundredths and the score in *)
(* thousandths.  fn_args holds the capability asked for, fn_result.value   *)
(* the candidates and the id returned ("" for None).                       *)
(***************************************************************************)
ProfileStatuses == {"active", "busy"}
BestReputations == {0, 10}
BestLoads       == {0, 100}
BestCapSets     == {{"c1"}, {"c2"}}
ServiceLevel    == 5        \* service_level of every profile here, in tenths

ScoredProfile(caps, reputation, load, status) ==
    [capabilities |-> caps, reputation_score |-> reputation,
     service_level |-> ServiceLevel, load_factor |-> load,
     last_heartbeat |-> None, status |-> status]

BestProfiles ==
    {ScoredProfile(caps, r, l, s) : caps \in BestCapSets, r \in BestReputations,
                                    l \in BestLoads, s \in ProfileStatuses}

\* the registries register_agent builds from these profiles
BestRegistries ==
    UNION {[ids -> BestProfiles] : ids \in SUBSET AgentIds}

\* the capabilities_index register_agent keeps for a registry
IndexOf(ags) ==
    LET caps == UNION {ags[a].capabilities : a \in DOMAIN ags}
    IN [c \in caps |-> {a \in DOMAIN ags : c \in ags[a].capabilities}]

\* lines 166-177
score_agent(agent) ==
    IF agent.status # "active" THEN 0
    ELSE 40 * agent.reputation_score + 30 * agent.service_level
         + 3 * (IF 100 - agent.load_factor > 0 THEN 100 - agent.load_factor ELSE 0)

\* max(candidates, key=score_agent): the first of the highest score
first_of_max(candidates) ==
    LET s(i) == score_agent(registry_agents[candidates[i]])
        i == CHOOSE k \in 1..Len(candidates) :
                 \A j \in 1..Len(candidates) :
                     /\ s(j) <= s(k)
                     /\ j < k => s(j) < s(k)
    IN candidates[i]

\* candidates is the list find_agents_by_capability returned
get_best_agent_for_capability(candidates) ==
    IF candidates = << >> THEN "" ELSE first_of_max(candidates)

\* the list is built by iterating a set of ids: any order
BT_GetBest ==
    /\ ~fn_result.done
    /\ \E candidates \in Orderings(find_agents_by_capability(fn_args[1])) :
           fn_result' = [done |-> TRUE,
                         value |-> [candidates |-> candidates,
                                    best |-> get_best_agent_for_capability(candidates)]]
    /\ UNCHANGED <<coreVars, a2aVars, fn_args, delivered>>
    /\ UNCHANGED agentVars

BestInit ==
    /\ ClockInit /\ CBInit /\ RouterInit
    /\ clock = 0
    /\ registry_agents \in BestRegistries
    /\ registry_order \in Orderings(DOMAIN registry_agents)
    /\ registry_index = IndexOf(registry_agents)
    /\ message_handlers = {}
    /\ messages = << >>
    /\ pending_responses = {}
    /\ futures = << >>
    /\ tasks = {}
    /\ waits = << >>
    /\ active_collaborations = << >>
    /\ cc = CallIdle
    /\ pr = CallIdle
    /\ fn_args \in {<<c>> : c \in Capabilities}
    /\ fn_result = NotCalled
    /\ delivered = << >>
    /\ AgentInit

BestNext == BT_GetBest

SpecBest == BestInit /\ [][BestNext]_vars

(***************************************************************************)
(* One agent under a long run of route_message calls (central_router.py    *)
(* 221-326, 338-351).  Each call carries a message, kept in fn_args as     *)
(* [ttl, routed_at]: its expiry, None when it has none, and the time of    *)
(* the call.  The heartbeats of these runs report a load within [0,1].     *)
(***************************************************************************)
MaxLoadDeliveries == 101    \* cap on stats.messages_routed in these runs

FullLoad        == 100      \* load_factor 1.0, in hundredths
HeartbeatLoads  == {0, FullLoad}
MessageTtls     == {None, 0}
LoadHorizon     == 1        \* the clock of these runs stops here

LoadFrame == UNCHANGED <<breakerVars, a2aVars, fn_result, delivered>>

LD_Register ==
    /\ rt.pc = "idle"
    /\ "a1" \notin DOMAIN agents
    /\ RegisterAgent("a1", "t1", <<"c1">>, HEALTHY)
    /\ UNCHANGED <<clockVars, routing_counters, rt, fn_args>> /\ LoadFrame
    /\ UNCHANGED agentVars

LD_Heartbeat ==
    /\ \E load \in HeartbeatLoads : HandleAgentHeartbeat("a1", load)
    /\ UNCHANGED <<clockVars, routing_counters, rt, fn_args>> /\ LoadFrame
    /\ UNCHANGED agentVars

LD_Begin ==
    /\ stats.messages_routed < MaxLoadDeliveries
    /\ RouteBegin("id", "a1", "round_robin")
    /\ \E ttl \in MessageTtls : fn_args' = <<[ttl |-> ttl, routed_at |-> now]>>
    /\ UNCHANGED clockVars /\ LoadFrame
    /\ UNCHANGED agentVars

LD_Deliver1 ==
    /\ \E ok \in BOOLEAN : (ok \/ stats.routing_errors < MaxRaised) /\ RouteDeliver1(ok)
    /\ UNCHANGED <<clockVars, fn_args>> /\ LoadFrame
    /\ UNCHANGED agentVars

LD_Return ==
    /\ RouteReturn
    /\ UNCHANGED <<clockVars, fn_args>> /\ LoadFrame
    /\ UNCHANGED agentVars

LD_Tick ==
    /\ now < LoadHorizon
    /\ now' = now + 1
    /\ UNCHANGED <<ticks, routerVars, fn_args>> /\ LoadFrame
    /\ UNCHANGED agentVars

LoadInit ==
    ClockInit /\ CBInit /\ RouterInit /\ A2AInit /\ FnInit /\ AgentInit

LoadNext ==
    \/ LD_Register
    \/ LD_Heartbeat
    \/ LD_Begin
    \/ LD_Deliver1
    \/ LD_Return
    \/ LD_Tick

SpecLoad == LoadInit /\ [][LoadNext]_vars

(***************************************************************************)
(* A consensus call and the responses that come during and after it        *)
(* (a2a_communication.py 303-374, 537-544).  fn_result.value records the   *)
(* last step: [op, id, before, result], where before is the orchestrator's *)
(* state ahead of a response for a collaboration that has returned, and    *)
(* result is what the last return handed to the caller.                    *)
(***************************************************************************)
LateParticipants == {<<"a1">>}
LateTimeouts     == {0, 1}                   \* seconds
LateDecisions    == {"buy", "sell"}

OrchestratorState == <<active_collaborations, cc>>

Returned == IF fn_result.done THEN fn_result.value.result ELSE << >>

LateStep(op, id, before, result) ==
    [done |-> TRUE,
     value |-> [op |-> op, id |-> id, before |-> before, result |-> result]]

\* the collaboration ids whose call has returned
Finished == {id \in 1..cc.id : id < cc.id \/ cc.pc \in {"returned", "idle"}}

LateFrame == UNCHANGED <<coreVars, fn_args, delivered>>

LT_Initiate ==
    /\ \E ps \in LateParticipants, timeout \in LateTimeouts :
           InitiateConsensus(ps, Seconds(timeout))
    /\ fn_result' = LateStep("initiate", cc.id + 1, << >>, Returned)
    /\ UNCHANGED <<clock, registry_agents, registry_order, registry_index,
                   message_handlers, waits, pr>>
    /\ LateFrame
    /\ UNCHANGED agentVars

LT_Poll ==
    /\ ConsensusPoll
    /\ fn_result' = LateStep("poll", cc.id, << >>, Returned)
    /\ UNCHANGED <<clock, msgVars, pr>> /\ LateFrame
    /\ UNCHANGED agentVars

LT_Return ==
    /\ ConsensusReturn
    /\ fn_result' = LateStep("return", cc.id, << >>,
                             [responses |-> cc.responses, analysis |-> cc.result])
    /\ UNCHANGED <<clock, msgVars, active_collaborations, pr>> /\ LateFrame
    /\ UNCHANGED agentVars

LT_Response ==
    /\ cc.pc # "returned"
    /\ \E sender \in AgentIds, id \in 1..MaxCollaborations, d \in LateDecisions :
           /\ HandleConsensusResponse(sender, id, d)
           /\ fn_result' = IF id \in Finished
                           THEN LateStep("late_response", id, OrchestratorState,
                                         Returned)
                           ELSE LateStep("response", id, << >>, Returned)
    /\ UNCHANGED <<clock, msgVars, pr>> /\ LateFrame
    /\ UNCHANGED agentVars

LT_Tick ==
    /\ cc.pc = "polling"
    /\ clock < cc.wake + MaxOvershoot
    /\ A2ATick(1)
    /\ fn_result' = LateStep("tick", cc.id, << >>, Returned)
    /\ UNCHANGED <<msgVars, collabVars>> /\ LateFrame
    /\ UNCHANGED agentVars

LateInit ==
    ClockInit /\ CBInit /\ RouterInit /\ A2AInit /\ FnInit /\ AgentInit

LateNext ==
    \/ LT_Initiate
    \/ LT_Poll
    \/ LT_Return
    \/ LT_Response
    \/ LT_Tick

SpecLate == LateInit /\ [][LateNext]_vars

(***************************************************************************)
(* BaseAgent.start and stop (base_agent.py 81-137, 268-291), with the      *)
(* subscription of TechnicalAnalysisAgent (agents/technical_analysis/      *)
(* agent.py 125-141).  base_agent is [running, connected, subscriptions,   *)
(* announced], announced telling whether its last publish to the router    *)
(* was a registration.  A call is taken whole, its awaits answered by the  *)
(* step named in "fails": the one that raises, or "none".                  *)
(* fn_result.value is the last call: [op, fails, raised, before].          *)
(***************************************************************************)
NewBaseAgent ==
    [running |-> FALSE, connected |-> FALSE, subscriptions |-> {},
     announced |-> FALSE]

RouterTopics == <<"agent.messages", "router.agent.updates">>
AgentTopic   == "market_data"

StartSteps == {"none", "connect", "register", "subscribe", "router_subscribe_1",
               "router_subscribe_2", "initialize"}
StopSteps  == {"none", "unregister", "cleanup", "unsubscribe", "close"}

\* _setup_router_subscriptions: an exception ends it and is logged
router_subscriptions(fails) ==
    IF fails = "router_subscribe_1" THEN {}
    ELSE IF fails = "router_subscribe_2" THEN {RouterTopics[1]}
    ELSE ListSet(RouterTopics)

\* start: [agent, raised]; _register_with_router logs its own exceptions
start(a, fails) ==
    IF fails = "connect" THEN [agent |-> a, raised |-> TRUE]
    ELSE LET a1 == [a EXCEPT !.connected = TRUE,
                             !.announced = IF fails = "register" THEN @ ELSE TRUE] IN
         IF fails = "subscribe" THEN [agent |-> a1, raised |-> TRUE]
         ELSE LET a2 == [a1 EXCEPT !.subscriptions =
                             @ \cup {AgentTopic} \cup router_subscriptions(fails)]
              IN IF fails = "initialize" THEN [agent |-> a2, raised |-> TRUE]
                 ELSE [agent |-> [a2 EXCEPT !.running = TRUE], raised |-> FALSE]

\* stop: the agent afterwards; everything after running = False is inside one
\* try whose except logs and returns, and _unregister_from_router logs its own
stop(a, fails) ==
    IF ~a.running THEN a
    ELSE LET a1 == [a EXCEPT !.running = FALSE,
                             !.announced = IF fails = "unregister" THEN @ ELSE FALSE] IN
         IF fails = "cleanup" THEN a1
         ELSE IF fails = "unsubscribe" /\ a1.subscriptions # {} THEN a1
         ELSE LET a2 == [a1 EXCEPT !.subscriptions = {}] IN
              IF fails = "close" THEN a2
              ELSE [a2 EXCEPT !.connected = FALSE]

LifeFrame == UNCHANGED <<coreVars, a2aVars, fn_args, delivered>>

BA_Start ==
    /\ \E fails \in StartSteps :
           LET r == start(base_agent, fails) IN
           /\ base_agent' = r.agent
           /\ fn_result' = [done |-> TRUE,
                            value |-> [op |-> "start", fails |-> fails,
                                       raised |-> r.raised, before |-> base_agent]]
    /\ LifeFrame

BA_Stop ==
    /\ \E fails \in StopSteps :
           /\ base_agent' = stop(base_agent, fails)
           /\ fn_result' = [done |-> TRUE,
                            value |-> [op |-> "stop", fails |-> fails,
                                       raised |-> FALSE, before |-> base_agent]]
    /\ LifeFrame

LifecycleInit ==
    /\ ClockInit /\ CBInit /\ RouterInit /\ A2AInit /\ FnInit
    /\ base_agent = NewBaseAgent

LifecycleNext ==
    \/ BA_Start
    \/ BA_Stop

SpecLifecycle == LifecycleInit /\ [][LifecycleNext]_vars

(***************************************************************************)
(* The router's bookkeeping around route_message calls.  Registrations     *)
(* arrive complete or with "capabilities": null, the payload of a          *)
(* BaseAgent whose config leaves capabilities at its default (base_agent.py *)
(* 30, 53, 224).  fn_args holds what the call in flight saw on entry, the   *)
(* breakers and the error count; fn_result counts the calls that returned   *)
(* True.                                                                    *)
(***************************************************************************)
MaxListed == 2      \* cap on the ids listed under one agent type

NoneList == <<"None">>      \* Python's None where a list is expected

\* register_agent with agent_instance.capabilities None: the agent is stored
\* and listed under its type, the for loop raises TypeError, and the except
\* clause logs it; no breaker is made and agents_registered is not counted
RegisterAgentNoCapabilities(id, type, status) ==
    /\ agents' = Put(agents, id, AgentInstance(type, NoneList, status, now, 0))
    /\ agent_types' = [agent_types EXCEPT ![type] = Append(@, id)]
    /\ UNCHANGED <<capabilities_index, circuit_breakers, stats>>

OnEntry == [breakers |-> circuit_breakers, errors |-> stats.routing_errors]

\* the ids a finished or running call has handed to _deliver_message
Attempted == {rt.attempts[i].agent : i \in 1..Len(rt.attempts)}

TallyFrame == UNCHANGED <<breakerVars, a2aVars, delivered, agentVars>>

TL_Register ==
    /\ rt.pc = "idle"
    /\ \E id \in AgentIds :
           /\ Len(agent_types["t1"]) < MaxListed
           /\ RegisterAgent(id, "t1", <<"c1">>, HEALTHY)
    /\ UNCHANGED <<clockVars, routing_counters, rt, fn_args, fn_result>> /\ TallyFrame

TL_RegisterNoCapabilities ==
    /\ rt.pc = "idle"
    /\ \E id \in AgentIds :
           /\ Len(agent_types["t1"]) < MaxListed
           /\ RegisterAgentNoCapabilities(id, "t1", HEALTHY)
    /\ UNCHANGED <<clockVars, routing_counters, rt, fn_args, fn_result>> /\ TallyFrame

TL_Begin ==
    /\ \E d \in RouteDestinations, strategy \in RouteStrategies :
           RouteBegin(d[1], d[2], strategy)
    /\ rt'.pc = "deliver1" => MaySucceed
    /\ stats' # stats => MayFail
    /\ fn_args' = <<OnEntry>>
    /\ UNCHANGED <<clockVars, fn_result>> /\ TallyFrame

TL_Deliver1 ==
    /\ \E ok \in BOOLEAN : (IF ok THEN MaySucceed ELSE MayFail) /\ RouteDeliver1(ok)
    /\ UNCHANGED <<clockVars, fn_args, fn_result>> /\ TallyFrame

TL_Deliver2 ==
    /\ \E ok \in BOOLEAN : RouteDeliver2(ok)
    /\ UNCHANGED <<clockVars, fn_args, fn_result>> /\ TallyFrame

TL_Return ==
    /\ RouteReturn
    /\ fn_result' = IF rt.ret THEN fn_result + 1 ELSE fn_result
    /\ UNCHANGED <<clockVars, fn_args>> /\ TallyFrame

TL_Tick ==
    /\ rt.pc = "idle"
    /\ now <= Timeout
    /\ Tick(Timeout + 1)
    /\ UNCHANGED <<routerVars, fn_args, fn_result>> /\ TallyFrame

TallyInit ==
    /\ ClockInit /\ CBInit /\ RouterInit /\ A2AInit /\ AgentInit
    /\ fn_args = << >> /\ fn_result = 0 /\ delivered = << >>

TallyNext ==
    \/ TL_Register
    \/ TL_RegisterNoCapabilities
    \/ TL_Begin
    \/ TL_Deliver1
    \/ TL_Deliver2
    \/ TL_Return
    \/ TL_Tick

SpecTally == TallyInit /\ [][TallyNext]_vars

(***************************************************************************)
(* AgentRegistry with _periodic_cleanup running: the task loops for ever,   *)
(* so a cleanup that would remove an agent is eventually run, and time      *)
(* passes.  Registrations and heartbeats stop at SilentFrom; from then on   *)
(* every agent is silent for longer than the stale timeout.                 *)
(***************************************************************************)
SilentStep == Seconds(StaleAfter) + 1
SilentFrom == SilentStep
SilentEnd  == 2 * SilentStep

SilentFrame ==
    UNCHANGED <<coreVars, collabVars, message_handlers, messages,
                pending_responses, futures, tasks, waits, fnVars, agentVars>>

SL_Register ==
    /\ clock <= SilentFrom
    /\ \E id \in AgentIds, p \in RegistryProfiles : A2ARegisterAgent(id, p)
    /\ UNCHANGED clock /\ SilentFrame

SL_UpdateStatus ==
    /\ clock <= SilentFrom
    /\ \E id \in AgentIds, status \in StatusInputs, load \in StatusLoads :
           UpdateAgentStatus(id, status, load)
    /\ UNCHANGED clock /\ SilentFrame

SL_Cleanup ==
    /\ CleanupStaleAgents
    /\ UNCHANGED clock /\ SilentFrame

SL_Tick ==
    /\ clock < SilentEnd
    /\ clock' = clock + SilentStep
    /\ UNCHANGED <<registry_agents, registry_order, registry_index>>
    /\ SilentFrame

SilentInit ==
    ClockInit /\ CBInit /\ RouterInit /\ A2AInit /\ FnInit /\ AgentInit

SilentNext ==
    \/ SL_Register
    \/ SL_UpdateStatus
    \/ SL_Cleanup
    \/ SL_Tick

SpecSilent ==
    SilentInit /\ [][SilentNext]_vars /\ WF_vars(SL_Cleanup) /\ WF_vars(SL_Tick)

(***************************************************************************)
(* The MessageRouter with the event loop running: a watchdog task whose    *)
(* sleep is over is eventually run, and time passes.  Agent a1 sends its   *)
(* requests to a2 while their response_timeout still ends within the       *)
(* modelled time.                                                          *)
(***************************************************************************)
PD_Send ==
    /\ clock + Seconds(1) <= MaxClock
    /\ \E mode \in MsgSendModes : SendMessage("a1", "a2", mode[1], Seconds(mode[2]))
    /\ UNCHANGED <<clock, registry_agents, registry_order, registry_index,
                   message_handlers, waits>>
    /\ MsgFrame
    /\ UNCHANGED agentVars

PendingNext ==
    \/ MR_RegisterAgent
    \/ MR_RegisterHandler
    \/ PD_Send
    \/ MR_Deliver
    \/ MR_Watchdog
    \/ MR_Wait
    \/ MR_WaitResume
    \/ MR_Tick

SpecPending ==
    MessageInit /\ [][PendingNext]_vars /\ WF_vars(MR_Watchdog) /\ WF_vars(MR_Tick)

(***************************************************************************)
(* agents/news_analysis/agent.py _handle_news_article (305-380) and        *)
(* agents/sentiment_analysis/agent.py _handle_content (381-427): one       *)
(* content agent under at-least-once delivery.  An invocation of the       *)
(* handler runs to its next await; invocations for other deliveries run in *)
(* between.  base_agent holds                                              *)
(*   processed   processed_articles / processed_content                    *)
(*   history     news_history / sentiment_history, the ids appended        *)
(*   count       articles_processed / content_processed                    *)
(*   calls       the handler invocations: the id delivered and where the   *)
(*               invocation stands (analysing | publishing | done)         *)
(* The history deque's maxlen is taken to be larger than MaxDeliveries.    *)
(***************************************************************************)
MaxDeliveries == 3      \* handler invocations in a run
ContentIds    == {"x1", "x2"}
ContentAgents == {"news", "sentiment"}

NewContentAgent(kind) ==
    [kind |-> kind, processed |-> {}, history |-> << >>, count |-> 0,
     calls |-> << >>]

\* the handler from its entry to the await on the analysis: an id already in
\* the processed set returns at once
handle_begin(a, id) ==
    [a EXCEPT !.calls = Append(@, [id |-> id,
                  pc |-> IF id \in a.processed THEN "done" ELSE "analysing"])]

\* the analysis has returned: with a result the id is added to the processed
\* set and to the history; an insight over the threshold is published (the
\* next await) before the counter is incremented
handle_analysed(a, k, result, publish) ==
    LET id == a.calls[k].id IN
    IF ~result THEN [a EXCEPT !.calls[k].pc = "done"]
    ELSE LET a1 == [a EXCEPT !.processed = @ \cup {id},
                             !.history = Append(@, id)]
         IN IF publish THEN [a1 EXCEPT !.calls[k].pc = "publishing"]
            ELSE [a1 EXCEPT !.count = @ + 1, !.calls[k].pc = "done"]

\* the publish has returned (ok) or raised; the except clause logs
handle_published(a, k, ok) ==
    IF ok THEN [a EXCEPT !.count = @ + 1, !.calls[k].pc = "done"]
    ELSE [a EXCEPT !.calls[k].pc = "done"]

At(k, pc) == k \in 1..Len(base_agent.calls) /\ base_agent.calls[k].pc = pc

OnceFrame == UNCHANGED <<coreVars, a2aVars, fnVars>>

CA_Deliver ==
    /\ Len(base_agent.calls) < MaxDeliveries
    /\ \E id \in ContentIds : base_agent' = handle_begin(base_agent, id)
    /\ OnceFrame

NA_Analysed ==
    /\ base_agent.kind = "news"
    /\ \E k \in 1..MaxDeliveries, result \in BOOLEAN, publish \in BOOLEAN :
           /\ At(k, "analysing")
           /\ base_agent' = handle_analysed(base_agent, k, result, publish)
    /\ OnceFrame

NA_Published ==
    /\ base_agent.kind = "news"
    /\ \E k \in 1..MaxDeliveries, ok \in BOOLEAN :
           /\ At(k, "publishing")
           /\ base_agent' = handle_published(base_agent, k, ok)
    /\ OnceFrame

SA_Analysed ==
    /\ base_agent.kind = "sentiment"
    /\ \E k \in 1..MaxDeliveries, result \in BOOLEAN, publish \in BOOLEAN :
           /\ At(k, "analysing")
           /\ base_agent' = handle_analysed(base_agent, k, result, publish)
    /\ OnceFrame

SA_Published ==
    /\ base_agent.kind = "sentiment"
    /\ \E k \in 1..MaxDeliveries, ok \in BOOLEAN :
           /\ At(k, "publishing")
           /\ base_agent' = handle_published(base_agent, k, ok)
    /\ OnceFrame

OnceInit ==
    /\ ClockInit /\ CBInit /\ RouterInit /\ A2AInit /\ FnInit
    /\ base_agent \in {NewContentAgent(kind) : kind \in ContentAgents}

OnceNext ==
    \/ CA_Deliver
    \/ NA_Analysed
    \/ NA_Published
    \/ SA_Analysed
    \/ SA_Published

SpecOnce == OnceInit /\ [][OnceNext]_vars

(***************************************************************************)
(* C1: no index holds an orphan entry.  Every id in a type-index or        *)
(* capability-index entry of CentralRouter is registered and declares that *)
(* type or capability.                                                     *)
(***************************************************************************)
C1_NoOrphanIndexEntries ==
    /\ \A t \in AgentTypes : \A id \in ListSet(agent_types[t]) :
           id \in DOMAIN agents /\ agents[id].agent_type = t
    /\ \A c \in Capabilities : \A id \in ListSet(capabilities_index[c]) :
           id \in DOMAIN agents /\ InList(agents[id].capabilities, c)

(***************************************************************************)
(* C2: a breaker that has recorded Threshold consecutive failures answers  *)
(* False to every can_execute call made less than Timeout seconds after    *)
(* its last recorded failure.                                              *)
(***************************************************************************)
C2_BlockedDuringCooldown ==
    ( /\ cb_call.op = "can_execute"
      /\ cb_streak >= Threshold
      /\ now - cb.last_failure < Timeout )
    => cb_call.ret = FALSE

C2_Witness ==
    /\ cb_call.op = "can_execute"
    /\ cb_streak = Threshold
    /\ now - cb.last_failure = 1
    /\ cb_call.ret = FALSE

(***************************************************************************)
(* C3: once a can_execute call has moved the breaker to half-open, no      *)
(* further can_execute call returns True until an outcome is recorded:     *)
(* at most one trial is admitted.                                          *)
(***************************************************************************)
C3_OneTrialInHalfOpen ==
    cb.state = "half-open" => cb_trials <= 1

(***************************************************************************)
(* C4: every agent route_message hands a message to, on the first attempt  *)
(* or on the retry, was HEALTHY with a breaker whose can_execute returned  *)
(* true when the call filtered its candidates; and a call whose candidates *)
(* resolve but of which none passes returns False without publishing.      *)
(***************************************************************************)
C4_OnlyPassingAgentsAreHanded ==
    /\ rt.pc \in {"deliver1", "deliver2"} => rt.selected \in rt.passed
    /\ \A i \in 1..Len(rt.attempts) :
           rt.attempts[i].published => rt.attempts[i].agent \in rt.passed
    /\ (rt.pc = "done" /\ rt.resolved /\ rt.passed = {}) =>
           (rt.ret = FALSE /\ rt.attempts = << >>)

\* a call that left out an agent whose breaker is open and handed the message
\* to the other one
C4_Witness ==
    /\ rt.pc = "done" /\ rt.ret = TRUE
    /\ Len(rt.attempts) = 1 /\ rt.attempts[1].published
    /\ \E a \in DOMAIN circuit_breakers :
           /\ a \notin rt.passed
           /\ circuit_breakers[a].state = "open"
           /\ InList(agent_types["t1"], a)

(***************************************************************************)
(* C5: the outcome of every delivery attempt of route_message, the first   *)
(* and the retry alike, is recorded on the breaker of the agent it went    *)
(* to.                                                                     *)
(***************************************************************************)
C5_EveryOutcomeRecorded ==
    \A i \in 1..Len(rt.attempts) :
        rt.attempts[i].published => rt.attempts[i].recorded

(***************************************************************************)
(* C6: when the first delivery of a call fails, one further delivery is    *)
(* attempted exactly if another healthy candidate remains, and it goes to  *)
(* an agent other than the one that failed; with no other candidate the    *)
(* call returns False; no call makes more than two attempts and at most    *)
(* one agent accepts the message.  The reading is the one most favourable  *)
(* to the code: a retry needs another agent in healthy_agents, and a       *)
(* retry is owed only if such an agent is still registered and HEALTHY     *)
(* when the first delivery fails.                                          *)
(***************************************************************************)
C6_RetryIffOtherCandidate ==
    /\ Len(rt.attempts) <= 2
    /\ Cardinality({i \in 1..Len(rt.attempts) : rt.attempts[i].ok}) <= 1
    /\ (rt.pc = "done" /\ rt.attempts # << >> /\ ~rt.attempts[1].ok) =>
           LET others == ListSet(rt.healthy) \ {rt.attempts[1].agent}
               remain == {a \in others : /\ a \in DOMAIN agents
                                          /\ agents[a].status = HEALTHY}
           IN /\ Len(rt.attempts) = 2 => others # {}
              /\ remain # {} => Len(rt.attempts) = 2
              /\ Len(rt.attempts) = 2 =>
                     rt.attempts[2].agent # rt.attempts[1].agent
              /\ others = {} => rt.ret = FALSE

(***************************************************************************)
(* C7: a message routed with requires_response has exactly one pending     *)
(* slot from the moment the router accepts it until it is resolved by a    *)
(* response or expired by the timeout, and the slot ends by one of the     *)
(* two only: while neither has happened the slot is there, and a message   *)
(* that was answered has no slot left and does not expire later.           *)
(***************************************************************************)
Expired(mid) == mid \in DOMAIN futures /\ futures[mid] = "timeout"

C7_OnePendingSlotUntilResolved ==
    \A mid \in 1..Len(messages) :
        LET m == messages[mid]
        IN (m.accepted /\ m.requires_response) =>
              /\ (m.answered_at = None /\ ~Expired(mid)) =>
                     mid \in pending_responses
              /\ m.answered_at # None =>
                     (mid \notin pending_responses /\ ~Expired(mid))

(***************************************************************************)
(* C8: when the receiver answers a requires_response message before        *)
(* response_timeout has passed, the caller of wait_for_response that is    *)
(* waiting on the slot is not given the timeout in place of the response.  *)
(***************************************************************************)
AnsweredInTime(mid) ==
    LET m == messages[mid]
    IN /\ m.answered_at # None /\ m.response_timeout # None
       /\ m.answered_at < m.routed_at + m.response_timeout

C8_ResponseReachesWaiter ==
    \A mid \in DOMAIN waits :
        AnsweredInTime(mid) => waits[mid] # "TimeoutError"

(***************************************************************************)
(* C9: initiate_consensus_building returns no later than its deadline plus *)
(* one poll interval whoever responds, and returns within a poll of the    *)
(* moment every participant has responded; while it has not returned it is *)
(* inside both limits.                                                     *)
(***************************************************************************)
C9_ConsensusReturnsByDeadline ==
    LET ended == IF cc.pc = "returned" THEN cc.returned_at ELSE clock
    IN cc.pc \in {"polling", "returned"} =>
          /\ ended <= cc.start + cc.timeout + PollInterval
          /\ cc.complete_at # None =>
                 ended <= cc.complete_at + PollInterval + MaxOvershoot

\* a call that one of its two participants never answered returns, with the
\* one response, a poll interval after the deadline
C9_Witness ==
    /\ cc.pc = "returned" /\ cc.timeout > 0
    /\ cc.returned_at = cc.start + cc.timeout + PollInterval
    /\ cc.complete_at = None
    /\ cc.result.final_decision = "buy"
    /\ Len(messages) = 2 /\ messages[1].accepted /\ ~messages[2].accepted

(***************************************************************************)
(* C10: orchestrate_peer_review returns an aggregate and never raises,     *)
(* whatever the order in which the timeout watchdogs and the collection    *)
(* loop run and whichever reviewers time out, stay silent or could not be  *)
(* delivered to.                                                           *)
(***************************************************************************)
C10_PeerReviewNeverRaises ==
    pr.pc # "raised"

(***************************************************************************)
(* C11: for responses of which at least one carries a decision,            *)
(* final_decision is a decision no other decision has more votes than,     *)
(* consensus_achieved is true exactly when the votes for it are at least   *)
(* 0.6 of the votes cast, and dissenting_agents is exactly the responders  *)
(* whose decision is not final_decision, each once.                        *)
(***************************************************************************)
VotesFor(rs, d) == Cardinality({i \in 1..Len(rs) : rs[i].decision = d})

VotesCast(rs) == Cardinality({i \in 1..Len(rs) : rs[i].decision # NoDecision})

MajorityCount(rs) ==
    CHOOSE n \in 0..Len(rs) :
        /\ \A d \in ResponseDecisions \ {NoDecision} : VotesFor(rs, d) <= n
        /\ n = 0 \/ \E d \in ResponseDecisions \ {NoDecision} : VotesFor(rs, d) = n

C12_ScoreOverAllResponses ==
    (fn_result.done /\ fn_args[1] # << >>) =>
        LET score == fn_result.value.agreement_score
        IN score[1] * Len(fn_args[1]) = MajorityCount(fn_args[1]) * score[2]

(***************************************************************************)
(* C13: a consensus call that returns with no response received reports    *)
(* consensus_achieved false, agreement_score 0, no final_decision, and     *)
(* every participant as dissenting.                                        *)
(***************************************************************************)
C13_NoResponseAllDissent ==
    (cc.pc = "returned" /\ cc.responses = << >>) =>
        /\ ~cc.result.consensus_achieved
        /\ cc.result.agreement_score[1] = 0
        /\ cc.result.final_decision = NoDecision
        /\ cc.result.dissenting_agents = cc.participants

(***************************************************************************)
(* C14: the average reported for a criterion is the average of the scores  *)
(* supplied for it, over the reviewers that supplied one: a response that  *)
(* omits the criterion adds neither a value nor a count.                   *)
(***************************************************************************)
Suppliers(rs, c) == {i \in 1..Len(rs) : rs[i].scores[c] # None}

C14_AverageOverSuppliers ==
    fn_result.done =>
        \A c \in ListSet(fn_args[2]) :
            LET rs   == fn_args[1]
                avg  == fn_result.value.criteria_scores[c]
                sups == SetToList(Suppliers(rs, c))
            IN sups # << >> =>
                   avg[1] * Len(sups) =
                       SumSeq([i \in 1..Len(sups) |-> rs[sups[i]].scores[c]]) * avg[2]

(***************************************************************************)
(* C15: round_robin calls that deliver one after the other to the same     *)
(* filtered candidates, N of them without a repetition, with no change of  *)
(* the registry in between, go to candidates of that list, and any two of  *)
(* them fewer than N calls apart go to different candidates: N calls in a  *)
(* row visit each candidate exactly once.                                  *)
(***************************************************************************)
NoRepetition(list) == Cardinality(ListSet(list)) = Len(list)

FirstOfLeastLoad(list, a) ==
    \E i \in 1..Len(list) :
        /\ list[i] = a
        /\ \A j \in 1..Len(list) : agents[list[j]].load_factor >= agents[a].load_factor
        /\ \A j \in 1..(i - 1) : agents[list[j]].load_factor > agents[a].load_factor

C17_UnknownStrategyIsRoundRobin ==
    (/\ rt.pc = "done"
     /\ rt.strategy \notin {"round_robin", "least_loaded", "random"}
     /\ rt.passed # {}) =>
        /\ rt.attempts # << >>
        /\ rt.attempts[1].agent =
               rt.healthy[Counter(routing_counters, rt.healthy) + 1]

(***************************************************************************)
(* C18: registration is idempotent on the agent id.  However often an id   *)
(* was registered with the same profile, it occurs exactly once in the     *)
(* index entry of its type and of each capability it declares.             *)
(***************************************************************************)
Occurrences(list, id) == Cardinality({i \in 1..Len(list) : list[i] = id})

C18_OneIndexEntryPerAgent ==
    \A id \in DOMAIN agents :
        /\ Occurrences(agent_types[agents[id].agent_type], id) = 1
        /\ \A c \in ListSet(agents[id].capabilities) :
               Occurrences(capabilities_index[c], id) = 1

(***************************************************************************)
(* C19: right after an agent is registered, the lookup by each capability  *)
(* it declared returns it (capabilities_index of CentralRouter,            *)
(* find_agents_by_capability of AgentRegistry), and in CentralRouter the   *)
(* lookup by its type returns it as well.                                  *)
(***************************************************************************)
C19_RegisteredAgentIsFound ==
    (fn_result.done /\ fn_result.value.op = "register") =>
        LET call == fn_result.value
        IN IF fn_args[1] = "CentralRouter"
           THEN /\ call.id \in DOMAIN agents
                /\ InList(agent_types[call.type], call.id)
                /\ \A c \in call.caps : InList(capabilities_index[c], call.id)
           ELSE /\ call.id \in DOMAIN registry_agents
                /\ \A c \in call.caps : call.id \in find_agents_by_capability(c)

\* an id registered again in CentralRouter, now declaring two capabilities
C19_Witness ==
    /\ fn_result.done /\ fn_result.value.op = "register"
    /\ fn_args[1] = "CentralRouter"
    /\ fn_result.value.known
    /\ fn_result.value.caps = {"c1", "c2"}

(***************************************************************************)
(* C20: a heartbeat for an id that is not registered changes nothing in    *)
(* the registry: no profile, index entry or circuit breaker is created,    *)
(* and an id that was unregistered or evicted stays out.                   *)
(***************************************************************************)
C20_LateHeartbeatChangesNothing ==
    (fn_result.done /\ fn_result.value.op = "heartbeat" /\ ~fn_result.value.known) =>
        /\ fn_result.value.before =
               IF fn_args[1] = "CentralRouter" THEN RegistryState
               ELSE A2ARegistryState
        /\ fn_result.value.id \notin DOMAIN agents
        /\ fn_result.value.id \notin DOMAIN circuit_breakers
        /\ fn_result.value.id \notin DOMAIN registry_agents

\* the heartbeat of an agent that was registered and is no longer
C20_Witness ==
    /\ fn_result.done /\ fn_result.value.op = "heartbeat"
    /\ ~fn_result.value.known
    /\ fn_result.value.id \in fn_result.value.seen
    /\ fn_args[1] = "CentralRouter"

(***************************************************************************)
(* C21: between two heartbeats of an agent the health-aging pass only      *)
(* moves its status downward -- to degraded once more than 30 s have       *)
(* passed since the last heartbeat, to offline once more than 60 s have    *)
(* passed -- and never upward; a heartbeat for a registered agent sets its *)
(* status to healthy whatever it was before.                               *)
(***************************************************************************)
StatusRank(s) ==
    CASE s = HEALTHY -> 3 [] s = DEGRADED -> 2 [] s = UNHEALTHY -> 1 [] OTHER -> 0

Silence(a) == now - agents[a].last_heartbeat

\* no step raises the status of an agent whose last heartbeat stays the same
NoUpwardStep ==
    \A a \in DOMAIN agents \cap DOMAIN agents' :
        agents'[a].last_heartbeat = agents[a].last_heartbeat
            => StatusRank(agents'[a].status) <= StatusRank(agents[a].status)

\* what an aging pass does to each agent
AgingStep ==
    /\ DOMAIN agents' = DOMAIN agents
    /\ \A a \in DOMAIN agents :
           /\ agents'[a].last_heartbeat = agents[a].last_heartbeat
           /\ Silence(a) > OfflineAfter => agents'[a].status = OFFLINE
           /\ Silence(a) > DegradedAfter /\ Silence(a) <= OfflineAfter
                  /\ agents[a].status = HEALTHY
                  => agents'[a].status = DEGRADED
           /\ Silence(a) <= DegradedAfter => agents'[a].status = agents[a].status

\* what a heartbeat for a registered agent does
HeartbeatStep ==
    LET id == fn_result'.value.id IN
    id \in DOMAIN agents =>
        /\ id \in DOMAIN agents'
        /\ agents'[id].status = HEALTHY
        /\ agents'[id].last_heartbeat = now

C21_AgingOnlyDowngrades ==
    [][ fn_result'.done =>
          /\ NoUpwardStep
          /\ fn_result'.value.op = "health_monitor" => AgingStep
          /\ fn_result'.value.op = "heartbeat" => HeartbeatStep ]_vars

\* an aging pass has just taken one agent to offline and left another, whose
\* heartbeat came later, at degraded
C21_Witness ==
    /\ fn_result.done /\ fn_result.value.op = "health_monitor"
    /\ \E a, b \in DOMAIN agents :
           /\ agents[a].status = OFFLINE /\ Silence(a) > OfflineAfter
           /\ agents[b].status = DEGRADED /\ Silence(b) > DegradedAfter
           /\ Silence(b) <= OfflineAfter

(***************************************************************************)
(* C22: an agent that stops heartbeating is marked offline once more than  *)
(* 60 s have passed without a heartbeat, and is evicted only after it has  *)
(* then been offline for more than the 5-minute grace period.  An agent    *)
(* turns offline no sooner than 60 s after its last heartbeat, so an       *)
(* evicted agent has been silent for more than 60 s plus the grace period. *)
(***************************************************************************)
C22_EvictedAfterGraceOffline ==
    fn_result.done /\ fn_result.value.op = "cleanup"
        => \A i \in 1..Len(fn_result.value.before) :
               fn_result.value.before[i].silent > OfflineAfter + EvictAfter

(***************************************************************************)
(* C23: an unregister control message for a registered agent id, as agents *)
(* emit at shutdown, removes the agent from the agents map, from both      *)
(* indices and from the circuit-breaker table.                             *)
(***************************************************************************)
C23_UnregisterMessageRemoves ==
    fn_result.done /\ fn_result.value.op = "unregister_message"
                   /\ fn_result.value.known
        => LET id == fn_result.value.id IN
           /\ id \notin DOMAIN agents
           /\ id \notin DOMAIN circuit_breakers
           /\ \A t \in DOMAIN agent_types : ~InList(agent_types[t], id)
           /\ \A c \in DOMAIN capabilities_index : ~InList(capabilities_index[c], id)

(***************************************************************************)
(* C24: the agent whose id is the broadcast message's sender never         *)
(* receives its own broadcast, through A2ACommunicationManager's           *)
(* broadcast_message as through the CentralRouter's broadcast handler.     *)
(***************************************************************************)
C24_SenderNeverReceives ==
    fn_result.done /\ fn_result.value.op = "broadcast"
        => ~InList(fn_result.value.before, fn_result.value.id)

(***************************************************************************)
(* C25: get_best_agent_for_capability returns none whenever no agent with  *)
(* the capability has status active, and never returns an agent whose      *)
(* status is not active.                                                   *)
(***************************************************************************)
C25_BestIsActiveOrNone ==
    fn_result.done =>
        LET best == fn_result.value.best IN
        /\ best # "" => registry_agents[best].status = "active"
        /\ (\A a \in ListSet(fn_result.value.candidates) :
                registry_agents[a].status # "active") => best = ""

(***************************************************************************)
(* C26: in every reachable state of a CircuitBreaker, state is open or     *)
(* half-open only if failure_count >= threshold, and the only transition   *)
(* into half-open is from open, by a can_execute call made when the        *)
(* cooldown has elapsed since last_failure.                                *)
(***************************************************************************)
TrippedOnlyAtThreshold ==
    cb.state \in {"open", "half-open"} => cb.failure_count >= Threshold

IntoHalfOpen ==
    cb.state # "half-open" /\ cb'.state = "half-open"
        => /\ cb.state = "open"
           /\ cb_call'.op = "can_execute" /\ cb_call'.ret
           /\ cb.last_failure # None
           /\ now - cb.last_failure >= Timeout

C26_TrippedAtThresholdHalfOpenAfterCooldown ==
    []TrippedOnlyAtThreshold /\ [][IntoHalfOpen]_vars

\* a can_execute call has just moved an open breaker to half-open
C26_Witness ==
    /\ cb_call.op = "can_execute" /\ cb_call.from = "open"
    /\ cb.state = "half-open"
    /\ cb.failure_count >= Threshold
    /\ now - cb.last_failure > Timeout

(***************************************************************************)
(* C27: for an open CircuitBreaker, can_execute returns true and moves the *)
(* breaker to half-open whenever more than cooldown seconds have elapsed   *)
(* since last_failure, however long the elapsed duration is.               *)
(***************************************************************************)
C27_OpenAdmitsAfterCooldown ==
    ( /\ cb_call.op = "can_execute" /\ cb_call.from = "open"
      /\ now - cb.last_failure > Timeout )
    => cb_call.ret /\ cb.state = "half-open"

(***************************************************************************)
(* C28: in half-open a record_failure moves the breaker back to open, and  *)
(* it then blocks for a full cooldown counted from that failure; a         *)
(* record_success moves it to closed with failure_count = 0, as it does    *)
(* from any state.                                                         *)
(***************************************************************************)
C28_TrialOutcomeDecides ==
    /\ (cb_call.op = "record_failure" /\ cb_call.from = "half-open")
           => /\ cb.state = "open"
              /\ cb.last_failure = now
              /\ \A d \in 0..Timeout : ~can_execute(cb, now + d)
    /\ cb_call.op = "record_success"
           => cb.state = "closed" /\ cb.failure_count = 0

\* a failed trial has just re-opened the breaker
C28_Witness ==
    /\ cb_call.op = "record_failure" /\ cb_call.from = "half-open"
    /\ cb.state = "open"
    /\ cb.last_failure = now

(***************************************************************************)
(* C29: the load_factor of every registered agent stays within [0,1] in    *)
(* every reachable state, after any number of deliveries to it and any     *)
(* heartbeats from it.                                                     *)
(***************************************************************************)
C29_LoadFactorWithinUnit ==
    \A a \in DOMAIN agents :
        agents[a].load_factor >= 0 /\ agents[a].load_factor <= FullLoad

(***************************************************************************)
(* C30: a message whose ttl has already passed when it is routed is never  *)
(* handed to a destination: route_message refuses it without publishing    *)
(* to the transport.                                                       *)
(***************************************************************************)
C30_ExpiredNeverHanded ==
    ( /\ rt.pc = "done" /\ fn_args # << >>
      /\ fn_args[1].ttl # None
      /\ fn_args[1].routed_at > fn_args[1].ttl )
    => /\ rt.ret = FALSE
       /\ \A i \in 1..Len(rt.attempts) :
              ~(rt.attempts[i].published /\ rt.attempts[i].ok)

(***************************************************************************)
(* C31: once initiate_consensus_building has returned for a collaboration, *)
(* its record is gone from active_collaborations, and a consensus response *)
(* that arrives afterwards for that collaboration id changes nothing in    *)
(* the orchestrator's state.                                               *)
(***************************************************************************)
C31_LateResponseIgnored ==
    /\ \A id \in Finished : id \notin DOMAIN active_collaborations
    /\ (fn_result.done /\ fn_result.value.op = "late_response")
           => OrchestratorState = fn_result.value.before

\* a response for the collaboration that returned with one response
C31_Witness ==
    /\ fn_result.done /\ fn_result.value.op = "late_response"
    /\ fn_result.value.id = cc.id /\ cc.pc = "idle"
    /\ fn_result.value.result # << >>
    /\ Len(fn_result.value.result.responses) = 1

(***************************************************************************)
(* C32: after start() succeeds the agent is running and holds its          *)
(* subscriptions; after stop() returns on a running agent, running is      *)
(* false and the subscription table is empty, whatever the outcome of the  *)
(* unregister publish, the agent-specific cleanup and the unsubscribe      *)
(* calls; stop() on an agent that is not running does nothing.             *)
(***************************************************************************)
C32_StopLeavesNothing ==
    fn_result.done =>
        LET call == fn_result.value IN
        /\ (call.op = "start" /\ ~call.raised)
               => base_agent.running /\ AgentTopic \in base_agent.subscriptions
        /\ (call.op = "stop" /\ call.before.running)
               => ~base_agent.running /\ base_agent.subscriptions = {}
        /\ (call.op = "stop" /\ ~call.before.running)
               => base_agent = call.before

(***************************************************************************)
(* C33: stats["circuit_breaker_trips"] increases by one each time an       *)
(* agent's circuit breaker goes to the open state.                         *)
(***************************************************************************)
Trips ==
    {a \in DOMAIN circuit_breakers \cap DOMAIN circuit_breakers' :
        /\ circuit_breakers[a].state # "open"
        /\ circuit_breakers'[a].state = "open"}

C33_TripsAreCounted ==
    [][ stats'.circuit_breaker_trips
            = stats.circuit_breaker_trips + Cardinality(Trips) ]_vars

(***************************************************************************)
(* C34: only responses sent by a collaboration's participants are recorded *)
(* in its responses map and counted in the aggregate: a response from an   *)
(* agent that is not in the participant list changes neither the record    *)
(* nor what the call returns.                                              *)
(***************************************************************************)
C34_OnlyParticipantsRecorded ==
    /\ \A id \in DOMAIN active_collaborations :
           Senders(active_collaborations[id].responses)
               \subseteq ListSet(active_collaborations[id].participants)
    /\ cc.pc = "returned" => Senders(cc.responses) \subseteq ListSet(cc.participants)

(***************************************************************************)
(* C35: a route_message call changes the circuit-breaker state only of     *)
(* agents it attempts delivery to: when the call has returned, a candidate *)
(* that was never handed to _deliver_message has the breaker state (open,  *)
(* half-open or closed) it had when the call began.                        *)
(***************************************************************************)
C35_UnattemptedBreakerUntouched ==
    rt.pc = "done" =>
        \A a \in DOMAIN circuit_breakers \cap DOMAIN fn_args[1].breakers :
            a \notin Attempted
                => circuit_breakers[a].state = fn_args[1].breakers[a].state

(***************************************************************************)
(* C36: between route_message calls stats["messages_routed"] equals the    *)
(* number of calls that returned True, and a call that returns True has    *)
(* left stats["routing_errors"] at the value it had when the call began.   *)
(***************************************************************************)
C36_RoutedCountsTrueReturns ==
    /\ rt.pc = "idle" => stats.messages_routed = fn_result
    /\ (rt.pc = "done" /\ rt.ret) => stats.routing_errors = fn_args[1].errors

(***************************************************************************)
(* C40: the circuit-breaker table has a breaker for each registered agent  *)
(* id and for no other id, also after a registration without a capability  *)
(* list, so the healthy filter finds the breaker of every candidate.       *)
(***************************************************************************)
C40_OneBreakerPerAgent ==
    DOMAIN circuit_breakers = DOMAIN agents

(***************************************************************************)
(* C37: with the periodic cleanup running, every registered agent that     *)
(* sends no heartbeat from some point on is eventually removed by          *)
(* cleanup_stale_agents, an agent that never sent a heartbeat included:    *)
(* once registrations and heartbeats have stopped the registry empties.    *)
(***************************************************************************)
C37_SilentAgentsRemoved ==
    \A a \in AgentIds : <>[](a \notin DOMAIN registry_agents)

(***************************************************************************)
(* C39: every pending-response slot that MessageRouter creates is          *)
(* eventually removed from pending_responses, whether or not anyone waits  *)
(* on it: while the slot exists the watchdog task that pops it when the    *)
(* message's response_timeout has elapsed exists too, and the slot goes.   *)
(***************************************************************************)
SlotHasWatchdog ==
    \A mid \in pending_responses :
        Task("watchdog", mid,
             messages[mid].routed_at + messages[mid].response_timeout) \in tasks

C39_PendingSlotsRemoved ==
    /\ []SlotHasWatchdog
    /\ \A mid \in 1..MaxMessages :
           (mid \in pending_responses) ~> (mid \notin pending_responses)

\* a slot nobody waited on has been removed by its watchdog
C39_Witness ==
    \E mid \in DOMAIN futures :
        /\ futures[mid] = "timeout"
        /\ mid \notin pending_responses
        /\ mid \notin DOMAIN waits

(***************************************************************************)
(* C38: under at-least-once delivery the news and sentiment agents process *)
(* each content id at most once, also when two handler invocations for the *)
(* same id interleave at the await on the analysis: an id is in the        *)
(* history at most once and the processed counter never exceeds the number *)
(* of distinct ids processed.                                              *)
(***************************************************************************)
Appended(id) ==
    Cardinality({i \in 1..Len(base_agent.history) : base_agent.history[i] = id})

C38_EachIdProcessedOnce ==
    /\ \A id \in ContentIds : Appended(id) <= 1
    /\ base_agent.count <= Cardinality(base_agent.processed)

====
